---- MODULE Spec2Model ----
(***************************************************************************)
(* Crop-yield prediction pipeline (Machine_learning_pipeline).             *)
(*                                                                         *)
(* The module models                                                       *)
(*   - train.py: fetch_ml_features_data, load_from_csv, train_model,       *)
(*     predict and the command line entry point;                           *)
(*   - scripts/table_ML.py: the source readers' results, merge_datasets,   *)
(*     create_final_ml_table, process_data;                                *)
(*   - scripts/load_ml_features.py: load_ml_features_csv.                  *)
(*                                                                         *)
(* Conventions.  A column name or a text cell is a sequence of one-letter  *)
(* strings, so that similarity ratios, number parsing and the names of     *)
(* indicator columns are computed and not looked up.  A cell is a record   *)
(* [k, n, s]: k = "num" with the number n, k = "str" with the text s, or   *)
(* k = "null" (None / NaN).  Numbers are integers; the data the model      *)
(* draws are multiples of 4, so that every median the code takes (a group  *)
(* median, then a global median over the group-imputed column) is an       *)
(* integer.  A frame is [cols, rows]: the ordered column names and the     *)
(* rows, each row a tuple of cells aligned with cols.                      *)
(***************************************************************************)
EXTENDS Integers, Sequences, FiniteSets, TLC

(***************************************************************************)
(* Generic helpers on sequences                                            *)
(***************************************************************************)
Range(s) == {s[i] : i \in DOMAIN s}

Max(S) == CHOOSE x \in S : \A y \in S : y <= x

Min(S) == CHOOSE x \in S : \A y \in S : x <= y

\* the function f over 1..n as a tuple, every element computed once
Tuple(f) == f \o <<>>

RECURSIVE FilterRange(_, _, _, _)
\* the elements s[i], lo <= i <= hi, with keep[i], in order
FilterRange(s, keep, lo, hi) ==
    IF lo > hi THEN <<>>
    ELSE IF lo = hi THEN (IF keep[lo] THEN <<s[lo]>> ELSE <<>>)
    ELSE LET mid == (lo + hi) \div 2
         IN  FilterRange(s, keep, lo, mid) \o FilterRange(s, keep, mid + 1, hi)

\* boolean-mask selection, as df[mask]
Filter(s, keep) == FilterRange(s, Tuple(keep), 1, Len(s))

\* the increasing sequence of the positions i with keep[i]
IdxWhere(keep) == Filter([i \in 1 .. Len(keep) |-> i], keep)

\* the elements of s at the positions idx, in order
SelectIdx(s, idx) == Tuple([k \in 1 .. Len(idx) |-> s[idx[k]]])

IndexOf(s, x) == IF \E i \in DOMAIN s : s[i] = x
                 THEN Min({i \in DOMAIN s : s[i] = x})
                 ELSE 0

(***************************************************************************)
(* Cells                                                                   *)
(***************************************************************************)
Num(n) == [k |-> "num", n |-> n, s |-> <<>>]

Str(s) == [k |-> "str", n |-> 0, s |-> s]

Null == [k |-> "null", n |-> 0, s |-> <<>>]

IsNull(v) == v.k = "null"

Digits == <<"0", "1", "2", "3", "4", "5", "6", "7", "8", "9">>

IsDigit(c) == \E i \in DOMAIN Digits : Digits[i] = c

DigitVal(c) == IndexOf(Digits, c) - 1

RECURSIVE ParseDigits(_, _)
ParseDigits(s, acc) ==
    IF s = <<>> THEN acc
    ELSE ParseDigits(Tail(s), 10 * acc + DigitVal(Head(s)))

\* pd.to_numeric(..., errors="coerce") on one cell: a number stays, a text
\* made of digits is parsed, any other text and None become NaN
ToNumeric(v) ==
    CASE v.k = "num" -> v
      [] v.k = "str" -> IF v.s # <<>> /\ \A i \in DOMAIN v.s : IsDigit(v.s[i])
                        THEN Num(ParseDigits(v.s, 0))
                        ELSE Null
      [] OTHER -> Null

(***************************************************************************)
(* Column names                                                            *)
(***************************************************************************)
area == <<"a", "r", "e", "a">>

year == <<"y", "e", "a", "r">>

crop_type == <<"c", "r", "o", "p", "_", "t", "y", "p", "e">>

crop_yield == <<"c", "r", "o", "p", "_", "y", "i", "e", "l", "d">>

rainfall == <<"r", "a", "i", "n", "f", "a", "l", "l">>

temperature == <<"t", "e", "m", "p", "e", "r", "a", "t", "u", "r", "e">>

pesticide_usage ==
    <<"p", "e", "s", "t", "i", "c", "i", "d", "e", "_", "u", "s", "a", "g", "e">>

rain_temp_interact ==
    <<"r", "a", "i", "n", "_", "t", "e", "m", "p", "_",
      "i", "n", "t", "e", "r", "a", "c", "t">>

\* names a request may carry that are no column of the store
rainfal == <<"r", "a", "i", "n", "f", "a", "l">>

humidity == <<"h", "u", "m", "i", "d", "i", "t", "y">>

crop_yeild == <<"c", "r", "o", "p", "_", "y", "e", "i", "l", "d">>

\* character order (ASCII) of the characters names are made of
Alphabet ==
    <<"0", "1", "2", "3", "4", "5", "6", "7", "8", "9", "A", "B", "M", "W",
      "_", "a", "b", "c", "d", "e", "f", "g", "h", "i", "j", "k", "l", "m",
      "n", "o", "p", "q", "r", "s", "t", "u", "v", "w", "x", "y", "z">>

CharRank(c) == IndexOf(Alphabet, c)

RECURSIVE StrLess(_, _)
\* a < b in Python's string order
StrLess(a, b) ==
    IF b = <<>> THEN FALSE
    ELSE IF a = <<>> THEN TRUE
    ELSE IF Head(a) = Head(b) THEN StrLess(Tail(a), Tail(b))
    ELSE CharRank(Head(a)) < CharRank(Head(b))

(***************************************************************************)
(* difflib.SequenceMatcher.ratio and difflib.get_close_matches             *)
(***************************************************************************)
RECURSIVE CommonLen(_, _, _, _, _, _)
\* length of the longest common run of a from i (below ahi) and b from j
\* (below bhi)
CommonLen(a, i, ahi, b, j, bhi) ==
    IF i < ahi /\ j < bhi /\ a[i] = b[j]
    THEN 1 + CommonLen(a, i + 1, ahi, b, j + 1, bhi)
    ELSE 0

\* find_longest_match on a[alo..ahi-1], b[blo..bhi-1]: <<i, j, k>> with k
\* maximal, and among those the earliest start in a, then in b
LongestMatch(a, alo, ahi, b, blo, bhi) ==
    LET pairs == (alo .. ahi - 1) \X (blo .. bhi - 1)
        len(p) == CommonLen(a, p[1], ahi, b, p[2], bhi)
        best == IF pairs = {} THEN 0 ELSE Max({len(p) : p \in pairs})
    IN  IF best = 0 THEN <<alo, blo, 0>>
        ELSE LET hits == {p \in pairs : len(p) = best}
                 i == Min({p[1] : p \in hits})
                 j == Min({p[2] : p \in {q \in hits : q[1] = i}})
             IN  <<i, j, best>>

RECURSIVE MatchCount(_, _, _, _, _, _)
\* the total size of get_matching_blocks on the two slices
MatchCount(a, alo, ahi, b, blo, bhi) ==
    IF alo >= ahi \/ blo >= bhi THEN 0
    ELSE LET m == LongestMatch(a, alo, ahi, b, blo, bhi)
         IN  IF m[3] = 0 THEN 0
             ELSE m[3]
                  + MatchCount(a, alo, m[1], b, blo, m[2])
                  + MatchCount(a, m[1] + m[3], ahi, b, m[2] + m[3], bhi)

Matches(a, b) == MatchCount(a, 1, Len(a) + 1, b, 1, Len(b) + 1)

\* ratio(a, b) = 2 * Matches / (len(a) + len(b)) >= cutoff = 0.6
CutoffNum == 3

CutoffDen == 5

RatioAtLeastCutoff(a, b) ==
    (Len(a) + Len(b) = 0)
    \/ 2 * Matches(a, b) * CutoffDen >= CutoffNum * (Len(a) + Len(b))

\* (ratio(x, word), x) < (ratio(y, word), y), the order heapq.nlargest uses
ScoreLess(x, y, word) ==
    LET mx == Matches(x, word) * (Len(y) + Len(word))
        my == Matches(y, word) * (Len(x) + Len(word))
    IN  mx < my \/ (mx = my /\ StrLess(x, y))

\* difflib.get_close_matches(word, possibilities, n=1, cutoff=0.6): the
\* result list, empty or holding the best possibility
get_close_matches(word, possibilities) ==
    LET ok == {x \in Range(possibilities) : RatioAtLeastCutoff(x, word)}
    IN  IF ok = {} THEN <<>>
        ELSE <<CHOOSE x \in ok : \A y \in ok \ {x} : ScoreLess(y, x, word)>>

(***************************************************************************)
(* Frames                                                                  *)
(***************************************************************************)
Frame(cols, rows) == [cols |-> cols, rows |-> rows]

HasCol(f, c) == \E i \in DOMAIN f.cols : f.cols[i] = c

ColIdx(f, c) == IndexOf(f.cols, c)

\* df[c] for a column name that occurs once
Column(f, c) ==
    LET j == ColIdx(f, c)
    IN  Tuple([i \in 1 .. Len(f.rows) |-> f.rows[i][j]])

\* df[cols]
SelectCols(f, cols) ==
    LET at == Tuple([j \in 1 .. Len(cols) |-> ColIdx(f, cols[j])])
    IN  Frame(cols,
              Tuple([i \in 1 .. Len(f.rows) |->
                        Tuple([j \in 1 .. Len(cols) |-> f.rows[i][at[j]]])]))

\* the frame with column c replaced by cells (c is a column of f)
SetColumn(f, c, cells) ==
    Frame(f.cols,
          Tuple([i \in 1 .. Len(f.rows) |->
                    Tuple([j \in 1 .. Len(f.cols) |->
                              IF f.cols[j] = c THEN cells[i] ELSE f.rows[i][j]])]))

\* the frame with a new last column
AddColumn(f, c, cells) ==
    Frame(Append(f.cols, c),
          Tuple([i \in 1 .. Len(f.rows) |-> Append(f.rows[i], cells[i])]))

\* DataFrame.drop_duplicates on the rows: the first of equal rows stays
DropDuplicates(rows) ==
    Filter(rows, [i \in 1 .. Len(rows) |-> \A j \in 1 .. i - 1 : rows[j] # rows[i]])

RowHasNull(row) == \E j \in DOMAIN row : IsNull(row[j])

NoDuplicates(s) == \A i, j \in DOMAIN s : s[i] = s[j] => i = j

(***************************************************************************)
(* The data a run can meet: the ml_features table behind the API, the      *)
(* fallback CSV data/ml_features.csv and the file given to --train-csv     *)
(***************************************************************************)
\* rows beyond the three hand-made ones in the tables of about MinSamples rows
PadRows == 97

StoreCols ==
    <<area, year, crop_type, crop_yield, rainfall, temperature, pesticide_usage>>

\* rainfall missing where the area has another rainfall value
BaseRow1 == <<Str(<<"A">>), Num(2000), Str(<<"M">>), Num(8), Null, Num(20), Num(4)>>

\* target and pesticide_usage missing
BaseRow2 == <<Str(<<"A">>), Num(2004), Str(<<"W">>), Null, Num(800), Num(24), Null>>

\* rainfall and temperature missing in an area that has no value for them
BaseRow3 == <<Str(<<"B">>), Num(2008), Str(<<"M">>), Num(16), Null, Null, Num(12)>>

BaseRows == <<BaseRow1, BaseRow2, BaseRow3>>

\* a complete row; the year keeps the rows of a table distinct
PadRow(a, i) ==
    <<Str(a), Num(4 * i), Str(<<"M">>), Num(12), Num(400), Num(20), Num(8)>>

Padding(a, n) == Tuple([i \in 1 .. n |-> PadRow(a, i)])

\* the contents the ml_features table can have
StoreTable ==
    <<  <<>>,
        BaseRows \o <<BaseRow1>>,
        BaseRows \o Padding(<<"A">>, PadRows - 1),
        BaseRows \o Padding(<<"A">>, PadRows),
        BaseRows \o Padding(<<"A">>, PadRows + 4)  >>

StoreIds == DOMAIN StoreTable

\* a row with no area and a text cell that is a number, as a CSV can hold
CsvRow1 ==
    <<Null, Num(2012), Str(<<"M">>), Str(<<"1", "6">>), Num(800), Num(20), Num(4)>>

CsvRow2 ==
    <<Str(<<"C">>), Num(2016), Str(<<"W">>), Str(<<"B">>), Null, Num(24), Num(8)>>

\* the contents a CSV file can have (0 stands for: no such file)
CsvTable ==
    <<  Frame(StoreCols, <<CsvRow1, CsvRow2>>),
        Frame(StoreCols, <<CsvRow1, CsvRow2>> \o Padding(<<"C">>, PadRows + 1)),
        Frame(<<area, year, crop_type, rainfall, temperature>>,
              << <<Str(<<"C">>), Num(2016), Str(<<"W">>), Num(400), Num(24)>> >>),
        Frame(StoreCols, <<>>),
        Frame(StoreCols, <<PadRow(<<"D">>, 1), PadRow(<<"D">>, 2)>>)  >>

NoFile == 0

\* what load_from_csv can find at data/ml_features.csv
FallbackIds == {NoFile, 1, 2, 3, 4}

\* data/ml_features.csv has not been looked at
NotRead == 0 - 2

\* the file --train-csv names: none given, a missing file, or a readable one
NoTrainCsv == 0 - 1

TrainCsvIds == {NoTrainCsv, NoFile, 5}

(***************************************************************************)
(* train.py: program constants                                             *)
(***************************************************************************)
\* retries=3 in train_model's call of fetch_ml_features_data
Retries == 3

\* "if len(y) < 100" in train_model
MinSamples == 100

\* test_size = 0.2 of TrainRequest, as the fraction TestSizeNum / TestSizeDen
TestSizeNum == 1

TestSizeDen == 5

\* batch_size and target_records of the fetch.  train_model passes 10_000
\* and 500_000; the model scales both down so that tables of about
\* MinSamples rows span several pages and reach the cap
BatchSize == 50

TargetRecords == 104

(***************************************************************************)
(* train_model, step 3: column validation                                  *)
(***************************************************************************)
\* [c for c in feature_columns if c in df.columns]
PresentFeatures(feats, df) ==
    Filter(feats, [i \in 1 .. Len(feats) |-> HasCol(df, feats[i])])

\* difflib.get_close_matches(f, df.columns, n=1, cutoff=0.6)
CloseMatch(f, df) == get_close_matches(f, df.cols)

\* the outcome of the feature check: ok with the feature list to use, or the
\* ValueError "Missing features"
ValidateFeatures(feats, df, allow_missing_features) ==
    LET missing_feats == {feats[i] : i \in {j \in DOMAIN feats : ~HasCol(df, feats[j])}}
        suggestions == {f \in missing_feats : CloseMatch(f, df) # <<>>}
        mapped == [i \in 1 .. Len(feats) |->
                     IF feats[i] \in suggestions
                     THEN CloseMatch(feats[i], df)[1]
                     ELSE feats[i]]
    IN  IF missing_feats = {} THEN [ok |-> TRUE, feats |-> feats]
        ELSE IF suggestions # {}
             THEN [ok |-> TRUE, feats |-> PresentFeatures(mapped, df)]
        ELSE IF allow_missing_features
             THEN [ok |-> TRUE, feats |-> PresentFeatures(feats, df)]
        ELSE [ok |-> FALSE, feats |-> feats]

(***************************************************************************)
(* train_model, step 4: feature engineering and cleaning                   *)
(***************************************************************************)
\* X_raw[col] = pd.to_numeric(X_raw[col], errors="coerce") for every column
NumericConversion(X) ==
    Frame(X.cols,
          Tuple([i \in 1 .. Len(X.rows) |->
                    Tuple([j \in 1 .. Len(X.cols) |-> ToNumeric(X.rows[i][j])])]))

\* a column has a numeric dtype iff it holds no text (object) cell
NumericDtype(cells) == \A i \in DOMAIN cells : cells[i].k # "str"

\* X.select_dtypes(include=[np.number]).columns.tolist()
NumericCols(X) ==
    Filter(X.cols, [j \in 1 .. Len(X.cols) |-> NumericDtype(Column(X, X.cols[j]))])

\* Series.median() over the positions idx of cells, NaN skipped: NaN (Null)
\* when no number is left
MedianAt(cells, idx) ==
    LET live == {i \in idx : ~IsNull(cells[i])}
        n == Cardinality(live)
        kth(k) == CHOOSE x \in {cells[i].n : i \in live} :
                     /\ Cardinality({i \in live : cells[i].n < x}) < k
                     /\ Cardinality({i \in live : cells[i].n <= x}) >= k
    IN  IF n = 0 THEN Null
        ELSE IF n % 2 = 1 THEN Num(kth((n + 1) \div 2))
        ELSE Num((kth(n \div 2) + kth(n \div 2 + 1)) \div 2)

Median(cells) == MedianAt(cells, DOMAIN cells)

\* X_raw.groupby(df["area"])[c].transform(lambda x: x.fillna(x.median())):
\* a missing cell takes the median of the rows of its area; a row whose area
\* is missing belongs to no group and comes back as NaN
GroupMedianFill(cells, keys) ==
    Tuple([i \in 1 .. Len(cells) |->
              IF IsNull(keys[i]) THEN Null
              ELSE IF ~IsNull(cells[i]) THEN cells[i]
              ELSE MedianAt(cells, {j \in 1 .. Len(cells) : keys[j] = keys[i]})])

\* a faulty variant of ImputeColumn: the group medians only, without the
\* global median after them
ImputeColumnGroupOnly(cells, df) ==
    IF HasCol(df, area) THEN GroupMedianFill(cells, Column(df, area)) ELSE cells

\* the imputation of one numeric column (drop_na false)
ImputeColumn(cells, df) ==
    LET grouped == IF HasCol(df, area)
                   THEN GroupMedianFill(cells, Column(df, area))
                   ELSE cells
        med == Median(grouped)
        fill == IF IsNull(med) THEN Num(0) ELSE med
    IN  Tuple([i \in 1 .. Len(cells) |->
                  IF IsNull(grouped[i]) THEN fill ELSE grouped[i]])

RECURSIVE ImputeNumeric(_, _, _)
\* the imputation loop over numeric_cols
ImputeNumeric(X, df, cols) ==
    IF cols = <<>> THEN X
    ELSE ImputeNumeric(SetColumn(X, Head(cols), ImputeColumn(Column(X, Head(cols)), df)),
                       df, Tail(cols))

\* the order of cell values in a sorted index
CellLess(a, b) ==
    IF a.k = "num" /\ b.k = "num" THEN a.n < b.n
    ELSE IF a.k = "str" /\ b.k = "str" THEN StrLess(a.s, b.s)
    ELSE a.k = "num" /\ b.k = "str"

RECURSIVE SortCells(_)
\* the cells of a set in increasing order
SortCells(S) ==
    IF S = {} THEN <<>>
    ELSE LET m == CHOOSE x \in S : \A z \in S \ {x} : CellLess(x, z)
         IN  <<m>> \o SortCells(S \ {m})

missing == <<"m", "i", "s", "s", "i", "n", "g">>

\* X_raw[c].mode(dropna=True): the most frequent value, the smallest of
\* equally frequent ones first; "missing" when the column has no value
ModeFill(cells) ==
    LET live == {i \in DOMAIN cells : ~IsNull(cells[i])}
        count(v) == Cardinality({i \in live : cells[i] = v})
        vals == {cells[i] : i \in live}
        top == {v \in vals : \A w \in vals : count(w) <= count(v)}
        fill == IF vals = {} THEN Str(missing) ELSE SortCells(top)[1]
    IN  Tuple([i \in 1 .. Len(cells) |-> IF IsNull(cells[i]) THEN fill ELSE cells[i]])

RECURSIVE FillCategorical(_, _)
FillCategorical(X, cols) ==
    IF cols = <<>> THEN X
    ELSE FillCategorical(SetColumn(X, Head(cols), ModeFill(Column(X, Head(cols)))),
                         Tail(cols))

RECURSIVE NumText(_)
\* str(n) for n >= 0
NumText(n) ==
    IF n < 10 THEN <<Digits[n + 1]>>
    ELSE NumText(n \div 10) \o <<Digits[(n % 10) + 1]>>

LevelText(v) == IF v.k = "str" THEN v.s ELSE NumText(v.n)

\* the name pd.get_dummies gives the indicator column of value v of column c
DummyName(c, v) == c \o <<"_">> \o LevelText(v)

RECURSIVE AddDummies(_, _, _, _)
\* the indicator columns of column c of X, one per level, appended to out
AddDummies(out, X, c, levels) ==
    IF levels = <<>> THEN out
    ELSE AddDummies(
            AddColumn(out, DummyName(c, Head(levels)),
                      LET cells == Column(X, c)
                      IN  Tuple([i \in 1 .. Len(X.rows) |->
                                    IF cells[i] = Head(levels) THEN Num(1) ELSE Num(0)])),
            X, c, Tail(levels))

RECURSIVE EncodeAll(_, _, _)
EncodeAll(out, X, cols) ==
    IF cols = <<>> THEN out
    ELSE EncodeAll(
            AddDummies(out, X, Head(cols),
                       SortCells({c \in Range(Column(X, Head(cols))) : ~IsNull(c)})),
            X, Tail(cols))

\* pd.get_dummies(X_raw, columns=cat_cols, drop_first=False): the other
\* columns first, then the indicator columns of each encoded column
get_dummies(X, cat_cols) ==
    LET rest == Filter(X.cols,
                       [j \in 1 .. Len(X.cols) |-> X.cols[j] \notin Range(cat_cols)])
    IN  EncodeAll(SelectCols(X, rest), X, cat_cols)

Product(a, b) == IF IsNull(a) \/ IsNull(b) THEN Null ELSE Num(a.n * b.n)

\* the rain_temp_interact column, added when both columns are there
AddInteraction(X) ==
    IF HasCol(X, rainfall) /\ HasCol(X, temperature)
    THEN LET rain == Column(X, rainfall)
              temp == Column(X, temperature)
         IN  AddColumn(X, rain_temp_interact,
                       Tuple([i \in 1 .. Len(X.rows) |-> Product(rain[i], temp[i])]))
    ELSE X

\* the columns of X_raw that are not in numeric_cols
CatCols(X, numeric_cols) ==
    Filter(X.cols, [j \in 1 .. Len(X.cols) |-> X.cols[j] \notin Range(numeric_cols)])

\* step 4 up to the interaction feature: X_processed from df and the
\* validated feature list
FeatureEngineering(df, feats, drop_na) ==
    LET X_raw == NumericConversion(SelectCols(df, feats))
        numeric_cols == NumericCols(X_raw)
        imputed == IF drop_na THEN X_raw ELSE ImputeNumeric(X_raw, df, numeric_cols)
        cat_cols == CatCols(X_raw, numeric_cols)
        filled == FillCategorical(imputed, cat_cols)
        encoded == IF cat_cols # <<>> THEN get_dummies(filled, cat_cols) ELSE filled
    IN  AddInteraction(encoded)

(***************************************************************************)
(* train_model, steps 5 and 6: the target and drop_na                      *)
(***************************************************************************)
\* y = pd.to_numeric(df[target_column], errors="coerce")
TargetColumn(df, target) ==
    LET cells == Column(df, target)
    IN  Tuple([i \in 1 .. Len(df.rows) |-> ToNumeric(cells[i])])

\* temp.dropna(): the positions of the rows with no missing cell in the
\* features or the target
CompleteRows(X, y) ==
    IdxWhere([i \in 1 .. Len(y) |-> ~RowHasNull(X.rows[i]) /\ ~IsNull(y[i])])

\* y.fillna(y.median()), 0 when there is no median
ImputeTarget(y) ==
    LET med == Median(y)
        fill == IF IsNull(med) THEN Num(0) ELSE med
    IN  Tuple([i \in 1 .. Len(y) |-> IF IsNull(y[i]) THEN fill ELSE y[i]])

\* step 6: the rows (positions of df), features and target that go on
TargetHandling(X, y, drop_na) ==
    IF drop_na
    THEN LET keep == CompleteRows(X, y)
         IN  [X |-> Frame(X.cols, SelectIdx(X.rows, keep)),
              y |-> SelectIdx(y, keep),
              index |-> keep]
    ELSE [X |-> X, y |-> ImputeTarget(y), index |-> Tuple([i \in 1 .. Len(y) |-> i])]

\* a faulty variant of TooFewSamples: the guard lets 99 samples pass
TooFewSamplesOffByOne(n) == n < MinSamples - 1

\* "if len(y) < 100": the guard before the split
TooFewSamples(n) == n < MinSamples

\* train_test_split: the number of test rows, ceil(test_size * n)
TestCount(n) == (n * TestSizeNum + TestSizeDen - 1) \div TestSizeDen

(***************************************************************************)
(* The training run: the command line entry point calling train_model      *)
(***************************************************************************)
\* the feature lists a request can carry
FeatureRequests ==
    {  <<area, year, crop_type, rainfall, temperature, pesticide_usage>>,
       <<year, rainfall, temperature>>,
       <<rainfal, temperature>>,
       <<rainfal, humidity>>,
       <<rainfall, humidity>>,
       <<rainfall, rainfal>>,
       <<crop_yeild, temperature>>  }

\* the defaults of --features
DefaultFeatures == <<area, year, crop_type, rainfall, temperature, pesticide_usage>>

NoFrame == Frame(<<>>, <<>>)

NoBundle == [exists |-> FALSE, feature_columns |-> <<>>, target_column |-> <<>>,
             scaler |-> {}, model |-> {}]

VARIABLES
    storeId,        \* which content the ml_features table has
    fallbackId,     \* what load_from_csv found at data/ml_features.csv
    trainCsvId,     \* the file of --train-csv, NoTrainCsv if not given
    payload,        \* the TrainRequest
    requested,      \* the feature_columns the request came with
    pc,             \* where the run is
    cliDf,          \* the frame the entry point read from --train-csv
    attempt,        \* fetch: the attempt number of the request in progress
    skip,           \* fetch: skip
    total,          \* fetch: total
    all_data,       \* fetch: all_data
    apiContacted,   \* whether a request was sent to /ml-features
    fetchOutcome,   \* "none", "ok", "empty" or "raised"
    df,             \* train_model: df
    source,         \* train_model: source
    X,              \* train_model: X_raw / X_processed
    y,              \* train_model: y
    index,          \* the positions in df of the rows of X and y
    scaler,         \* [fitted, rows]: the rows of df the scaler was fitted on
    split,          \* [done, train, test]: the rows of df in each part
    fitReached,     \* whether model.fit was called
    bundle,         \* the bundle file
    n_samples,      \* TrainResponse.n_samples
    err,            \* the exception the run ended with
    features,       \* predict: payload.features, the (name, value) pairs in order
    model_input,    \* predict: df.values, the rows handed to model.predict
    pred,           \* predict: what model.predict returned
    prediction,     \* predict: PredictResponse.prediction
    predPc,         \* predict: "call", "done" or "error"
    sources,        \* table_ML: the four raw files in data/
    datasets,       \* table_ML: the (name, frame) pairs of process_data
    ml_table,       \* table_ML: what process_data returned
    csvFile,        \* data/ml_features.csv as table_ML's main wrote it
    data,           \* load_ml_features: the converted tuples
    chunkAt,        \* load_ml_features: i of the chunk loop
    table,          \* the rows of the ml_features table of the database
    merged_out,     \* table_ML: what merge_datasets returned
    total_rows,     \* load_ml_features: the count load_ml_features_csv returns
    loads,          \* how many times load_ml_features.py has run
    pipePc,         \* where the merge / finalize / load run is
    resource,       \* main.py: the CRUD resource the requests go to
    records,        \* main.py: the rows of that resource's table, by id
    nextId,         \* the AUTO_INCREMENT counter of that table
    exchange,       \* the last request to the API and the status it got
    tableExists,    \* whether the database has an ml_features table
    faults,         \* the statement the database rejects at each attempt, if any
    cursorOpen,     \* drop_and_recreate: whether cursor is still open
    retryNo,        \* drop_and_recreate: the attempts made
    rejected,       \* the attempts in which the database rejected a statement
    recreated       \* drop_and_recreate: "none", or what it returned

predictVars == <<features, model_input, pred, prediction, predPc>>

pipelineVars == <<sources, datasets, ml_table, csvFile, data, chunkAt, table,
                  merged_out, total_rows, loads, pipePc>>

apiVars == <<resource, records, nextId, exchange>>

recreateVars == <<tableExists, faults, cursorOpen, retryNo, rejected, recreated>>

vars == <<storeId, fallbackId, trainCsvId, payload, requested, pc, cliDf, attempt, skip,
          total, all_data, apiContacted, fetchOutcome, df, source, X, y, index,
          scaler, split, fitReached, bundle, n_samples, err, predictVars,
          pipelineVars, apiVars, recreateVars>>

\* what no step of a training run changes
envVars == <<storeId, fallbackId, trainCsvId, requested, predictVars, pipelineVars,
             apiVars, recreateVars>>

fetchVars == <<attempt, skip, total, all_data, apiContacted, fetchOutcome>>

dataVars == <<df, source, X, y, index>>

modelVars == <<scaler, split, fitReached, bundle, n_samples>>

\* no training run is in progress: the state train_model starts from
TrainingIdle ==
    /\ fallbackId = NotRead
    /\ pc = "cli"
    /\ cliDf = NoFrame
    /\ attempt = 1
    /\ skip = 0
    /\ total = 0
    /\ all_data = <<>>
    /\ apiContacted = FALSE
    /\ fetchOutcome = "none"
    /\ df = NoFrame
    /\ source = "none"
    /\ X = NoFrame
    /\ y = <<>>
    /\ index = <<>>
    /\ scaler = [fitted |-> FALSE, rows |-> {}]
    /\ split = [done |-> FALSE, train |-> {}, test |-> {}]
    /\ fitReached = FALSE
    /\ n_samples = 0
    /\ err = "none"

\* no call of predict has been made
PredictIdle ==
    /\ features = <<>>
    /\ model_input = <<>>
    /\ pred = <<>>
    /\ prediction = <<>>
    /\ predPc = "idle"

InitTraining ==
    /\ storeId \in StoreIds
    /\ trainCsvId \in TrainCsvIds
    /\ payload \in [feature_columns : FeatureRequests,
                    target_column : {crop_yield},
                    allow_missing_features : BOOLEAN,
                    drop_na : BOOLEAN]
    \* --train-csv is tried with the default --features and --allow-missing
    /\ \/ trainCsvId = NoTrainCsv
       \/ /\ payload.feature_columns = DefaultFeatures
          /\ ~payload.allow_missing_features
    /\ requested = payload.feature_columns
    /\ bundle = NoBundle
    /\ TrainingIdle

\* the run ends with exception e
Raise(e) == pc' = "error" /\ err' = e

\* __main__: "if args.train_csv: df = pd.read_csv(args.train_csv)", then
\* train_model(payload, ml_model_path) on either branch
CliStart ==
    /\ pc = "cli"
    /\ IF trainCsvId = NoTrainCsv
       THEN pc' = "fetch" /\ UNCHANGED <<cliDf, err>>
       ELSE IF trainCsvId = NoFile
       THEN Raise("FileNotFoundError") /\ UNCHANGED cliDf
       ELSE pc' = "fetch" /\ cliDf' = CsvTable[trainCsvId] /\ UNCHANGED err
    /\ UNCHANGED <<envVars, payload, fetchVars, dataVars, modelVars>>

\* read_ml_features: query.offset(skip).limit(limit).all()
ServePage(rows, sk, limit) ==
    SubSeq(rows, sk + 1, IF sk + limit < Len(rows) THEN sk + limit ELSE Len(rows))

\* read_ml_features answers an error for "not results and skip == 0"
ServerError(rows, sk, limit) == ServePage(rows, sk, limit) = <<>> /\ sk = 0

\* a faulty variant of PageLimit: the page size whatever is left to the cap
PageLimitBatchOnly(tot) == BatchSize

\* limit = min(batch_size, target_records - total)
PageLimit(tot) ==
    IF BatchSize < TargetRecords - tot THEN BatchSize ELSE TargetRecords - tot

\* a faulty variant of LastAttempt: one attempt more than retries
LastAttemptOneMore(a) == a = Retries + 1

\* the retry loop gives up on this attempt
LastAttempt(a) == a = Retries

\* a faulty variant of FetchLeft: the rows fetched so far outlive the call
FetchLeftKeepsRows ==
    /\ attempt' = 1
    /\ skip' = 0
    /\ total' = 0
    /\ all_data' = all_data

\* fetch_ml_features_data is left: its locals are gone
FetchLeft ==
    /\ attempt' = 1
    /\ skip' = 0
    /\ total' = 0
    /\ all_data' = <<>>

\* train_model after fetch_ml_features_data returned the rows: df is the
\* deduplicated frame, and an empty one is an error that leads to the CSV
FetchReturn(rows) ==
    LET frame == Frame(StoreCols, DropDuplicates(rows))
    IN  /\ FetchLeft
        /\ IF frame.rows = <<>>
           THEN /\ fetchOutcome' = "empty"
                /\ pc' = "fallback"
                /\ UNCHANGED <<df, source>>
           ELSE /\ fetchOutcome' = "ok"
                /\ pc' = "validate"
                /\ df' = frame
                /\ source' = "API"

\* one request of the fetch loop that is answered: the page is appended,
\* and the loop goes on or ends (an empty page, a short page, or the cap)
FetchPageOk ==
    /\ pc = "fetch"
    /\ total < TargetRecords
    /\ LET limit == PageLimit(total)
           rows == StoreTable[storeId]
           batch == ServePage(rows, skip, limit)
           got == Len(batch)
       IN  /\ ~ServerError(rows, skip, limit)
           /\ apiContacted' = TRUE
           /\ IF batch = <<>>
              THEN FetchReturn(all_data)
              ELSE IF got < limit \/ total + got >= TargetRecords
              THEN FetchReturn(all_data \o batch)
              ELSE /\ all_data' = all_data \o batch
                   /\ total' = total + got
                   /\ skip' = skip + got
                   /\ attempt' = 1
                   /\ UNCHANGED <<pc, df, source, fetchOutcome>>
    /\ UNCHANGED <<envVars, payload, cliDf, X, y, index, modelVars, err>>

\* one request of the fetch loop that fails (connection error, timeout or an
\* error status): the next attempt, or the exception after the last one
FetchPageFail ==
    /\ pc = "fetch"
    /\ total < TargetRecords
    /\ apiContacted' = TRUE
    /\ IF LastAttempt(attempt)
       THEN /\ fetchOutcome' = "raised"
            /\ pc' = "fallback"
            /\ FetchLeft
       ELSE /\ attempt' = attempt + 1
            /\ UNCHANGED <<fetchOutcome, pc, skip, total, all_data>>
    /\ UNCHANGED <<envVars, payload, cliDf, dataVars, modelVars, err>>

\* the except branch of step 1: df = load_from_csv(CSV_FALLBACK_PATH)
Fallback ==
    /\ pc = "fallback"
    /\ \E found \in FallbackIds :
          /\ fallbackId' = found
          /\ IF found = NoFile
             THEN Raise("FileNotFoundError") /\ UNCHANGED <<df, source>>
             ELSE /\ df' = CsvTable[found]
                  /\ source' = "CSV"
                  /\ pc' = "validate"
                  /\ UNCHANGED err
    /\ UNCHANGED <<storeId, trainCsvId, requested, payload, cliDf, fetchVars,
                   X, y, index, modelVars, predictVars, pipelineVars, apiVars, recreateVars>>

\* step 3: the target column, then the feature columns
Validate ==
    /\ pc = "validate"
    /\ IF ~HasCol(df, payload.target_column)
       THEN Raise("ValueError: target column missing") /\ UNCHANGED payload
       ELSE LET v == ValidateFeatures(payload.feature_columns, df,
                                      payload.allow_missing_features)
            IN  IF v.ok
                THEN /\ payload' = [payload EXCEPT !.feature_columns = v.feats]
                     /\ pc' = "features"
                     /\ UNCHANGED err
                ELSE Raise("ValueError: missing features") /\ UNCHANGED payload
    /\ UNCHANGED <<envVars, cliDf, fetchVars, dataVars, modelVars>>

\* step 4 up to the interaction feature; pd.to_numeric refuses the frame
\* that X_raw[col] is when the feature list names a column twice
Features ==
    /\ pc = "features"
    /\ IF ~NoDuplicates(payload.feature_columns)
       THEN Raise("TypeError") /\ UNCHANGED <<X, index>>
       ELSE /\ X' = FeatureEngineering(df, payload.feature_columns, payload.drop_na)
            /\ index' = Tuple([i \in 1 .. Len(df.rows) |-> i])
            /\ pc' = "scale"
            /\ UNCHANGED err
    /\ UNCHANGED <<envVars, payload, cliDf, fetchVars, df, source, y, modelVars>>

\* the rows StandardScaler.fit_transform is given
ScalerInput(rows, sp) == Range(rows)

\* step 4, scaling: scaler.fit_transform(X_processed[num_cols_now]); the
\* scaler refuses a frame without rows.  The cells of X keep their unscaled
\* numbers: scaling changes no cell from or to NaN
Scale ==
    /\ pc = "scale"
    /\ IF NumericCols(X) = <<>>
       THEN pc' = "target" /\ UNCHANGED <<scaler, err>>
       ELSE IF X.rows = <<>>
       THEN Raise("ValueError: scaler") /\ UNCHANGED scaler
       ELSE /\ scaler' = [fitted |-> TRUE, rows |-> ScalerInput(index, split)]
            /\ pc' = "target"
            /\ UNCHANGED err
    /\ UNCHANGED <<envVars, payload, cliDf, fetchVars, dataVars, split,
                   fitReached, bundle, n_samples>>

\* steps 5 and 6
Target ==
    /\ pc = "target"
    /\ LET t == TargetHandling(X, TargetColumn(df, payload.target_column),
                               payload.drop_na)
       IN  /\ X' = t.X
           /\ y' = t.y
           /\ index' = t.index
    /\ pc' = "guard"
    /\ UNCHANGED <<envVars, payload, cliDf, fetchVars, df, source, modelVars, err>>

\* step 7: the guard, then X_clean / y_clean.  With drop_na, y is the
\* ndarray temp["_target_"].values and y.values raises AttributeError
Guard ==
    /\ pc = "guard"
    /\ IF TooFewSamples(Len(y))
       THEN Raise("ValueError: too few samples")
       ELSE IF payload.drop_na
       THEN Raise("AttributeError")
       ELSE pc' = "split" /\ UNCHANGED err
    /\ UNCHANGED <<envVars, payload, cliDf, fetchVars, dataVars, modelVars>>

\* the shuffles train_test_split can draw for a seed: the test rows are a
\* window of the rows, at the front or at the back
SplitOffsets(n) == {0, n - TestCount(n)}

\* step 7: train_test_split
Split ==
    /\ pc = "split"
    /\ \E o \in SplitOffsets(Len(y)) :
          LET test == {index[i] : i \in o + 1 .. o + TestCount(Len(y))}
          IN  split' = [done |-> TRUE, train |-> Range(index) \ test, test |-> test]
    /\ pc' = "fit"
    /\ UNCHANGED <<envVars, payload, cliDf, fetchVars, dataVars, scaler,
                   fitReached, bundle, n_samples, err>>

\* a faulty variant of Fit: the bundle is dumped as soon as the model is
\* fitted, before the metrics
FitSavesBundle ==
    /\ pc = "fit"
    /\ fitReached' = TRUE
    /\ bundle' = [exists |-> TRUE,
                  feature_columns |-> X.cols,
                  target_column |-> payload.target_column,
                  scaler |-> scaler.rows,
                  model |-> split.train]
    /\ pc' = "metrics"
    /\ UNCHANGED <<envVars, payload, cliDf, fetchVars, dataVars, scaler, split,
                   n_samples, err>>

\* step 8: model.fit(X_train, y_train)
Fit ==
    /\ pc = "fit"
    /\ fitReached' = TRUE
    /\ pc' = "metrics"
    /\ UNCHANGED <<envVars, payload, cliDf, fetchVars, dataVars, scaler, split,
                   bundle, n_samples, err>>

\* step 9: the metrics on both parts
Metrics ==
    /\ pc = "metrics"
    /\ pc' = "save"
    /\ UNCHANGED <<envVars, payload, cliDf, fetchVars, dataVars, modelVars, err>>

\* a faulty variant of Save: the bundle is dumped without its column list
SaveModelOnly ==
    /\ pc = "save"
    /\ bundle' = [exists |-> TRUE, model |-> split.train]
    /\ n_samples' = Len(y)
    /\ pc' = "done"
    /\ UNCHANGED <<envVars, payload, cliDf, fetchVars, dataVars, scaler, split,
                   fitReached, err>>

\* step 10: joblib.dump(bundle, path) and the TrainResponse
Save ==
    /\ pc = "save"
    /\ bundle' = [exists |-> TRUE,
                  feature_columns |-> X.cols,
                  target_column |-> payload.target_column,
                  scaler |-> scaler.rows,
                  model |-> split.train]
    /\ n_samples' = Len(y)
    /\ pc' = "done"
    /\ UNCHANGED <<envVars, payload, cliDf, fetchVars, dataVars, scaler, split,
                   fitReached, err>>

Next ==
    \/ CliStart
    \/ FetchPageOk
    \/ FetchPageFail
    \/ Fallback
    \/ Validate
    \/ Features
    \/ Scale
    \/ Target
    \/ Guard
    \/ Split
    \/ Fit
    \/ Metrics
    \/ Save

(***************************************************************************)
(* predict: one prediction from the bundle file                            *)
(***************************************************************************)
\* the bundle files predict can find: none, the bundles train_model saves
\* (their feature_columns are the columns of X_processed), and a file that
\* lacks the "model" key
BundleFiles ==
    {  NoBundle,
       [exists |-> TRUE,
        feature_columns |-> <<year, rainfall, temperature, rain_temp_interact>>,
        target_column |-> crop_yield, scaler |-> {1, 2}, model |-> {1}],
       [exists |-> TRUE,
        feature_columns |-> Append(DefaultFeatures, rain_temp_interact),
        target_column |-> crop_yield, scaler |-> {1, 2}, model |-> {2}],
       [exists |-> TRUE, feature_columns |-> <<rainfall>>,
        target_column |-> crop_yield, scaler |-> {1, 2}, model |-> {1}],
       [exists |-> TRUE, feature_columns |-> <<year>>]  }

\* the names a features mapping can have, in the order it gives them
FeatureKeys ==
    {  <<>>,
       <<year>>,
       <<rainfall, year>>,
       <<year, humidity, area>>  }

\* the values a features mapping can have: a number, null, a text that is a
\* number, a text that is none
FeatureValues ==
    {Num(4), Null, Str(<<"1", "6">>), Str(<<"B">>)}

\* the features mappings: (name, value) pairs with distinct names
FeatureInputs ==
    UNION {{Tuple([i \in 1 .. Len(ks) |-> <<ks[i], vs[i]>>]) :
               vs \in [1 .. Len(ks) -> FeatureValues]} : ks \in FeatureKeys}

\* load_model: the keys the bundle must have
RequiredKeys == {"model", "feature_columns"}

\* load_model's two checks pass
Loadable(b) == b.exists /\ RequiredKeys \subseteq DOMAIN b

\* pd.DataFrame([mapping]): one row, the names as columns
DataFrame(mapping) ==
    Frame(Tuple([i \in 1 .. Len(mapping) |-> mapping[i][1]]),
          <<Tuple([i \in 1 .. Len(mapping) |-> mapping[i][2]])>>)

\* a faulty variant of Reindex: the frame keeps the columns of the input
ReindexSkipped(frame, cols, fill) == frame

\* df.reindex(columns=cols, fill_value=fill)
Reindex(frame, cols, fill) ==
    Frame(cols,
          Tuple([i \in 1 .. Len(frame.rows) |->
                    Tuple([j \in 1 .. Len(cols) |->
                              IF HasCol(frame, cols[j])
                              THEN frame.rows[i][ColIdx(frame, cols[j])]
                              ELSE fill])]))

\* pd.to_numeric(df[c], errors="coerce").fillna(0) for every column
NumericOrZero(frame) ==
    Frame(frame.cols,
          Tuple([i \in 1 .. Len(frame.rows) |->
                    Tuple([j \in 1 .. Len(frame.cols) |->
                              LET v == ToNumeric(frame.rows[i][j])
                              IN  IF IsNull(v) THEN Num(0) ELSE v])]))

\* the regressor's estimate for one row: one number, a function of the row
\* and the fitted model
Estimate(model, row) == [model |-> model, row |-> row]

\* model.predict(values): one estimate per row
ModelPredict(model, values) ==
    Tuple([i \in 1 .. Len(values) |-> Estimate(model, values[i])])

\* predict(payload, ml_model_path)
Predict ==
    /\ predPc = "call"
    /\ IF ~Loadable(bundle)
       THEN /\ predPc' = "error"
            /\ UNCHANGED <<model_input, pred, prediction>>
       ELSE LET frame == NumericOrZero(Reindex(DataFrame(features),
                                               bundle.feature_columns, Num(0)))
                out == ModelPredict(bundle.model, frame.rows)
            IN  /\ model_input' = frame.rows
                /\ pred' = out
                /\ prediction' = out[1]
                /\ predPc' = "done"
    /\ UNCHANGED <<storeId, fallbackId, trainCsvId, payload, requested, pc, cliDf,
                   fetchVars, dataVars, modelVars, err, features, pipelineVars, apiVars, recreateVars>>

NextPredict == Predict

\* the features mappings the service is called with after a training run
ServiceInputs ==
    {  << <<year, Num(4)>> >>,
       << <<rainfall, Str(<<"1", "6">>)>>, <<year, Null>> >>  }

\* target_records and batch_size of fetch_ml_features_data when the caller
\* gives none
DefaultTargetRecords == 500000

DefaultBatchSize == 10000

\* a caller of the service calls predict once the training run has ended
PredictCall ==
    /\ pc \in {"done", "error"}
    /\ predPc = "idle"
    /\ \E mapping \in ServiceInputs : features' = mapping
    /\ predPc' = "call"
    /\ UNCHANGED <<storeId, fallbackId, trainCsvId, payload, requested, pc, cliDf,
                   fetchVars, dataVars, modelVars, err, model_input, pred, prediction,
                   pipelineVars, apiVars, recreateVars>>

\* batch_predict_from_api once the training run has ended: the fetch with
\* its defaults reads the table in one page or raises, then load_model and
\* one estimate per row
BatchPredict ==
    /\ pc \in {"done", "error"}
    /\ predPc = "idle"
    /\ apiContacted' = TRUE
    /\ \E answered \in BOOLEAN :
          LET rows == StoreTable[storeId]
              limit == Min({DefaultBatchSize, DefaultTargetRecords})
              frame == Frame(StoreCols, DropDuplicates(ServePage(rows, 0, limit)))
          IN  IF ~answered \/ ServerError(rows, 0, limit) \/ frame.rows = <<>>
                 \/ ~Loadable(bundle)
              THEN /\ predPc' = "batch_error"
                   /\ UNCHANGED <<model_input, pred>>
              ELSE LET inputs == NumericOrZero(Reindex(frame, bundle.feature_columns,
                                                      Num(0)))
                   IN  /\ model_input' = inputs.rows
                       /\ pred' = ModelPredict(bundle.model, inputs.rows)
                       /\ predPc' = "batch_done"
    /\ UNCHANGED <<storeId, fallbackId, trainCsvId, payload, requested, pc, cliDf,
                   attempt, skip, total, all_data, fetchOutcome, dataVars, modelVars,
                   err, features, prediction, pipelineVars, apiVars, recreateVars>>

\* a training run, then calls of the service against the bundle file
NextService ==
    \/ Next
    \/ PredictCall
    \/ Predict
    \/ BatchPredict

(***************************************************************************)
(* scripts/table_ML.py: the source readers, merge_datasets and             *)
(* create_final_ml_table                                                   *)
(***************************************************************************)
\* the dataset names of process_data that merge_datasets uses as suffixes
pesticides == <<"p", "e", "s", "t", "i", "c", "i", "d", "e", "s">>

yield == <<"y", "i", "e", "l", "d">>

\* what a reader returns: None, or a frame
None == [none |-> TRUE, frame |-> NoFrame]

Some(frame) == [none |-> FALSE, frame |-> frame]

\* a raw file of data/: absent; present with columns the reader cannot
\* process (it raises); or present with rows.  A row is a record of the
\* cells under the names the reader renames the file's columns to
Absent == [exists |-> FALSE, readable |-> FALSE, rows |-> <<>>]

Malformed == [exists |-> TRUE, readable |-> FALSE, rows |-> <<>>]

Readable(rows) == [exists |-> TRUE, readable |-> TRUE, rows |-> rows]

AreaA == Str(<<"A">>)

AreaB == Str(<<"B">>)

Maize == Str(<<"M">>)

Wheat == Str(<<"W">>)

\* rainfall.csv: a value that is no number, a number read as text, a value
\* twice, a row with no area, values below zero and zero
RainfallFiles ==
    {  Absent,
       Malformed,
       Readable(<<[area |-> AreaA, year |-> Num(2020), rainfall |-> Num(400)],
                  [area |-> AreaB, year |-> Num(2021), rainfall |-> Str(<<".", ".">>)],
                  [area |-> AreaA, year |-> Num(2020), rainfall |-> Num(400)],
                  [area |-> Null, year |-> Num(2021), rainfall |-> Num(800)],
                  [area |-> AreaB, year |-> Num(2020), rainfall |-> Str(<<"8", "0", "0">>)],
                  [area |-> AreaA, year |-> Num(2021), rainfall |-> Num(0 - 4)]>>),
       Readable(<<[area |-> AreaA, year |-> Num(2020), rainfall |-> Num(0 - 8)],
                  [area |-> AreaA, year |-> Num(2021), rainfall |-> Num(800)],
                  [area |-> AreaB, year |-> Num(2021), rainfall |-> Num(400)]>>),
       Readable(<<[area |-> AreaA, year |-> Num(2020), rainfall |-> Num(0)]>>)  }

\* temp.csv: a value out of range
TemperatureFiles ==
    {  Absent,
       Malformed,
       Readable(<<[area |-> AreaA, year |-> Num(2020), temperature |-> Num(20)],
                  [area |-> AreaB, year |-> Num(2021), temperature |-> Num(100)]>>)  }

\* pesticides.csv: another item, a negative value
PesticidesFiles ==
    {  Absent,
       Malformed,
       Readable(<<[area |-> AreaA, year |-> Num(2020), Item |-> "Pesticides (total)",
                   pesticide_usage |-> Num(4)],
                  [area |-> AreaB, year |-> Num(2021), Item |-> "Insecticides",
                   pesticide_usage |-> Num(8)],
                  [area |-> AreaB, year |-> Num(2021), Item |-> "Pesticides (total)",
                   pesticide_usage |-> Num(0 - 4)],
                  [area |-> AreaB, year |-> Num(2020), Item |-> "Pesticides (total)",
                   pesticide_usage |-> Num(0)],
                  [area |-> AreaA, year |-> Num(2019), Item |-> "Fertilizers",
                   pesticide_usage |-> Num(12)],
                  [area |-> AreaA, year |-> Num(2021), Item |-> "Pesticides (total)",
                   pesticide_usage |-> Null]>>)  }

\* yield.csv: two crops of one area and year, a Production row, a value of
\* 0, a missing value; and a file with no Yield row
YieldFiles ==
    {  Absent,
       Malformed,
       Readable(<<[area |-> AreaA, year |-> Num(2020), crop_type |-> Maize,
                   Element |-> "Yield", crop_yield |-> Num(8)],
                  [area |-> AreaA, year |-> Num(2020), crop_type |-> Wheat,
                   Element |-> "Yield", crop_yield |-> Num(12)],
                  [area |-> AreaB, year |-> Num(2021), crop_type |-> Maize,
                   Element |-> "Yield", crop_yield |-> Num(16)],
                  [area |-> AreaB, year |-> Num(2021), crop_type |-> Maize,
                   Element |-> "Production", crop_yield |-> Num(400)],
                  [area |-> AreaB, year |-> Num(2020), crop_type |-> Maize,
                   Element |-> "Yield", crop_yield |-> Num(0)],
                  [area |-> AreaA, year |-> Num(2021), crop_type |-> Wheat,
                   Element |-> "Yield", crop_yield |-> Null]>>),
       Readable(<<[area |-> AreaA, year |-> Num(2020), crop_type |-> Maize,
                   Element |-> "Production", crop_yield |-> Num(400)]>>)  }

\* validate_environment: the four required files are there
validate_environment(src) ==
    /\ src.rainfall.exists
    /\ src.temperature.exists
    /\ src.pesticides.exists
    /\ src.yield.exists

\* a reader that keeps the value 0: v >= 0 where the code has v > 0
NotNegative(v) == ~IsNull(v) /\ v.n >= 0

\* v > 0, v >= 0 ... on a cell of a float column: False on NaN
Positive(v) == ~IsNull(v) /\ v.n > 0

\* the rows of a raw file under the columns cols
Rows(raws, cols) ==
    Tuple([i \in 1 .. Len(raws) |-> Tuple([j \in 1 .. Len(cols) |-> raws[i][cols[j]]])])

load_and_process_rainfall(file) ==
    IF ~file.readable THEN None
    ELSE LET coerced == Tuple([i \in 1 .. Len(file.rows) |->
                                  [file.rows[i] EXCEPT !.rainfall = ToNumeric(@)]])
             kept == Filter(coerced,
                            [i \in 1 .. Len(coerced) |-> Positive(coerced[i].rainfall)])
         IN  Some(Frame(<<area, year, rainfall>>,
                        Rows(kept, <<"area", "year", "rainfall">>)))

load_and_process_temperature(file) ==
    IF ~file.readable THEN None
    ELSE LET kept == Filter(file.rows,
                            [i \in 1 .. Len(file.rows) |->
                                LET v == file.rows[i].temperature
                                IN  ~IsNull(v) /\ v.n >= 0 - 50 /\ v.n <= 60])
         IN  Some(Frame(<<area, year, temperature>>,
                        Rows(kept, <<"area", "year", "temperature">>)))

\* a reader that keeps the rows of every Item
PesticidesOfAnyItem(file) ==
    IF ~file.readable THEN None
    ELSE LET kept == Filter(file.rows,
                            [i \in 1 .. Len(file.rows) |->
                                LET r == file.rows[i]
                                IN  ~IsNull(r.pesticide_usage) /\ r.pesticide_usage.n >= 0])
         IN  Some(Frame(<<area, year, pesticide_usage>>,
                        Rows(kept, <<"area", "year", "pesticide_usage">>)))

load_and_process_pesticides(file) ==
    IF ~file.readable THEN None
    ELSE LET kept == Filter(file.rows,
                            [i \in 1 .. Len(file.rows) |->
                                LET r == file.rows[i]
                                IN  /\ r.Item = "Pesticides (total)"
                                    /\ ~IsNull(r.pesticide_usage)
                                    /\ r.pesticide_usage.n >= 0])
         IN  Some(Frame(<<area, year, pesticide_usage>>,
                        Rows(kept, <<"area", "year", "pesticide_usage">>)))

load_and_process_yield(file) ==
    IF ~file.readable THEN None
    ELSE LET kept == Filter(file.rows,
                            [i \in 1 .. Len(file.rows) |->
                                LET r == file.rows[i]
                                IN  r.Element = "Yield" /\ Positive(r.crop_yield)])
         IN  Some(Frame(<<area, year, crop_type, crop_yield>>,
                        Rows(kept, <<"area", "year", "crop_type", "crop_yield">>)))

\* the datasets dict of process_data after "Remove None datasets": the
\* (name, frame) pairs in insertion order
Datasets(src) ==
    LET all == << <<rainfall, load_and_process_rainfall(src.rainfall)>>,
                  <<temperature, load_and_process_temperature(src.temperature)>>,
                  <<pesticides, load_and_process_pesticides(src.pesticides)>>,
                  <<yield, load_and_process_yield(src.yield)>> >>
        live == Filter(all, [i \in 1 .. Len(all) |-> ~all[i][2].none])
    IN  Tuple([i \in 1 .. Len(live) |-> <<live[i][1], live[i][2].frame>>])

Empty(frame) == frame.rows = <<>> \/ frame.cols = <<>>

MergeKeys == <<area, year>>

RECURSIVE Flatten(_)
Flatten(ss) == IF ss = <<>> THEN <<>> ELSE Head(ss) \o Flatten(Tail(ss))

\* a merge with how="inner": left rows without a right row are lost
InnerMerge(left, right, name) ==
    LET extra == Filter(right.cols,
                        [j \in 1 .. Len(right.cols) |-> right.cols[j] \notin Range(MergeKeys)])
        key(frame, row) == <<row[ColIdx(frame, area)], row[ColIdx(frame, year)]>>
        values(row) == Tuple([j \in 1 .. Len(extra) |-> row[ColIdx(right, extra[j])]])
        matches(row) == Filter(right.rows,
                               [k \in 1 .. Len(right.rows) |->
                                   key(right, right.rows[k]) = key(left, row)])
        joined(row) == LET ms == matches(row)
                       IN  Tuple([k \in 1 .. Len(ms) |-> row \o values(ms[k])])
    IN  Frame(left.cols \o extra,
              Flatten(Tuple([i \in 1 .. Len(left.rows) |-> joined(left.rows[i])])))

\* left.merge(right, on=["area", "year"], how="left", suffixes=("", "_" + name)):
\* every left row in order, once per right row with its keys (missing keys
\* match missing keys), or once with NaN; a right column whose name the left
\* frame has takes the suffix
LeftMerge(left, right, name) ==
    LET extra == Filter(right.cols,
                        [j \in 1 .. Len(right.cols) |-> right.cols[j] \notin Range(MergeKeys)])
        named == Tuple([j \in 1 .. Len(extra) |->
                           IF HasCol(left, extra[j])
                           THEN extra[j] \o <<"_">> \o name
                           ELSE extra[j]])
        key(frame, row) == <<row[ColIdx(frame, area)], row[ColIdx(frame, year)]>>
        values(row) == Tuple([j \in 1 .. Len(extra) |-> row[ColIdx(right, extra[j])]])
        nans == Tuple([j \in 1 .. Len(extra) |-> Null])
        matches(row) == Filter(right.rows,
                               [k \in 1 .. Len(right.rows) |->
                                   key(right, right.rows[k]) = key(left, row)])
        joined(row) == LET ms == matches(row)
                       IN  IF ms = <<>> THEN <<row \o nans>>
                           ELSE Tuple([k \in 1 .. Len(ms) |-> row \o values(ms[k])])
    IN  Frame(left.cols \o named,
              Flatten(Tuple([i \in 1 .. Len(left.rows) |-> joined(left.rows[i])])))

RECURSIVE MergeOthers(_, _)
\* the loop of merge_datasets over datasets.items()
MergeOthers(merged_df, items) ==
    IF items = <<>> THEN merged_df
    ELSE LET name == Head(items)[1]
             frame == Head(items)[2]
         IN  IF name = yield \/ Empty(frame)
             THEN MergeOthers(merged_df, Tail(items))
             ELSE MergeOthers(LeftMerge(merged_df, frame, name), Tail(items))

\* merge_datasets: None, or the merged frame
merge_datasets(items) ==
    IF items = <<>> THEN None
    ELSE LET yields == Filter(items, [i \in 1 .. Len(items) |-> items[i][1] = yield])
             base == IF yields # <<>> /\ ~Empty(yields[1][2])
                     THEN yields[1][2]
                     ELSE items[1][2]
         IN  Some(MergeOthers(base, items))

priority_columns ==
    <<area, year, crop_type, crop_yield, rainfall, temperature, pesticide_usage>>

numeric_columns == <<crop_yield, rainfall, temperature, pesticide_usage>>

\* a faulty variant of create_final_ml_table: the duplicates go, the columns
\* stay as the merge left them
FinalTableAsMerged(merged_df) == Frame(merged_df.cols, DropDuplicates(merged_df.rows))

\* create_final_ml_table on a frame that is not empty
create_final_ml_table(merged_df) ==
    LET available_columns ==
            Filter(priority_columns,
                   [j \in 1 .. Len(priority_columns) |-> HasCol(merged_df, priority_columns[j])])
        picked == SelectCols(merged_df, available_columns)
        typed == Frame(picked.cols,
                       Tuple([i \in 1 .. Len(picked.rows) |->
                                 Tuple([j \in 1 .. Len(picked.cols) |->
                                           IF picked.cols[j] \in Range(numeric_columns)
                                           THEN ToNumeric(picked.rows[i][j])
                                           ELSE picked.rows[i][j]])]))
        kept == IF HasCol(typed, crop_yield)
                THEN Filter(typed.rows,
                            [i \in 1 .. Len(typed.rows) |->
                                ~IsNull(typed.rows[i][ColIdx(typed, crop_yield)])])
                ELSE typed.rows
    IN  Frame(typed.cols, DropDuplicates(kept))

\* process_data: None, or the ML features table
process_data(src) ==
    IF ~validate_environment(src) THEN None
    ELSE LET items == Datasets(src)
             merged == merge_datasets(items)
         IN  IF items = <<>> THEN None
             ELSE IF merged.none \/ Empty(merged.frame) THEN None
             ELSE LET final == create_final_ml_table(merged.frame)
                  IN  IF Empty(final) THEN None ELSE Some(final)

(***************************************************************************)
(* table_ML.main writes data/ml_features.csv; scripts/load_ml_features.py  *)
(* loads it into the ml_features table                                     *)
(***************************************************************************)
\* chunk_size of load_ml_features_csv.  The code's default is 1000; the
\* model scales it down so that the tables it draws span several chunks
ChunkSize == 2

NoCsv == [exists |-> FALSE, frame |-> NoFrame]

\* DataFrame.to_csv on one cell: the text written, empty for NaN
CsvText(v) ==
    CASE v.k = "num" -> NumText(v.n)
      [] v.k = "str" -> v.s
      [] OTHER -> <<>>

\* ml_table.to_csv(output_path, index=False): the header and the text cells
to_csv(frame) ==
    Frame(frame.cols,
          Tuple([i \in 1 .. Len(frame.rows) |->
                    Tuple([j \in 1 .. Len(frame.cols) |-> CsvText(frame.rows[i][j])])]))

IsNumberText(s) == s # <<>> /\ \A i \in DOMAIN s : IsDigit(s[i])

\* pd.read_csv: an empty cell is NaN; a column whose other cells are all
\* numbers is numeric, any other column keeps its text
read_csv(file) ==
    LET numeric(j) == \A i \in DOMAIN file.rows :
                          file.rows[i][j] = <<>> \/ IsNumberText(file.rows[i][j])
    IN  Frame(file.cols,
              Tuple([i \in 1 .. Len(file.rows) |->
                        Tuple([j \in 1 .. Len(file.cols) |->
                                  LET s == file.rows[i][j]
                                  IN  IF s = <<>> THEN Null
                                      ELSE IF numeric(j) THEN Num(ParseDigits(s, 0))
                                      ELSE Str(s)])]))

\* the conversion of one value of a row: None for a missing value,
\* int(value) for year, float(value) for the measurements, str(value) for
\* the rest; ok is false where int() or float() raises
ConvertValue(col, v) ==
    IF IsNull(v) THEN [ok |-> TRUE, v |-> Null]
    ELSE IF col = year \/ col \in Range(numeric_columns)
    THEN [ok |-> ~IsNull(ToNumeric(v)), v |-> ToNumeric(v)]
    ELSE [ok |-> TRUE, v |-> Str(CsvText(v))]

\* the tuples of "data": the rows whose values all convert, as rows of the
\* table (a column that is not inserted is NULL)
ConvertRows(frame) ==
    LET available_columns ==
            Filter(StoreCols, [j \in 1 .. Len(StoreCols) |-> HasCol(frame, StoreCols[j])])
        cell(row, c) == IF HasCol(frame, c)
                        THEN ConvertValue(c, row[ColIdx(frame, c)])
                        ELSE [ok |-> TRUE, v |-> Null]
        good == Filter(frame.rows,
                       [i \in 1 .. Len(frame.rows) |->
                           \A j \in DOMAIN available_columns :
                               cell(frame.rows[i], available_columns[j]).ok])
    IN  Tuple([i \in 1 .. Len(good) |->
                  Tuple([j \in 1 .. Len(StoreCols) |-> cell(good[i], StoreCols[j]).v])])

\* CREATE TABLE ml_features: area and year are NOT NULL, the other columns
\* of a row may be NULL
Insertable(row) ==
    /\ ~IsNull(row[IndexOf(StoreCols, area)])
    /\ ~IsNull(row[IndexOf(StoreCols, year)])

\* a chunk loop that gives a failing chunk up after the rollback
InsertedOfNoRetry(chunk) ==
    IF \A k \in DOMAIN chunk : Insertable(chunk[k]) THEN chunk ELSE <<>>

\* one pass of the chunk loop: executemany inserts the whole chunk or
\* raises; after the rollback the rows are inserted one by one
InsertedOf(chunk) ==
    IF \A k \in DOMAIN chunk : Insertable(chunk[k]) THEN chunk
    ELSE Filter(chunk, [k \in 1 .. Len(chunk) |-> Insertable(chunk[k])])

\* what one pass of the chunk loop adds to total_rows: len(chunk), or
\* chunk_success of the row by row inserts
CountOf(chunk) ==
    IF \A k \in DOMAIN chunk : Insertable(chunk[k]) THEN Len(chunk)
    ELSE Cardinality({k \in DOMAIN chunk : Insertable(chunk[k])})

\* a loader that creates the table only when there is none
RecreatedKeepsRows(rows) == rows

\* force_drop_table and drop_and_recreate_ml_features_table: DROP TABLE IF
\* EXISTS ml_features, then CREATE TABLE ml_features
Recreated(rows) == <<>>

\* the model runs load_ml_features.py at most this many times
MaxLoads == 2

\* a row an earlier load left in the table
OldRow == <<AreaB, Num(2019), Wheat, Num(4), Null, Null, Null>>

\* drop_and_recreate_ml_features_table has not been called
RecreateIdle ==
    /\ tableExists = TRUE
    /\ faults = <<>>
    /\ cursorOpen = FALSE
    /\ retryNo = 0
    /\ rejected = 0
    /\ recreated = "none"

\* the merge / finalize / load run has not started
PipelineIdle ==
    /\ sources = [rainfall |-> Absent, temperature |-> Absent,
                  pesticides |-> Absent, yield |-> Absent]
    /\ datasets = <<>>
    /\ ml_table = None
    /\ csvFile = NoCsv
    /\ data = <<>>
    /\ chunkAt = 0
    /\ table = <<>>
    /\ merged_out = None
    /\ total_rows = 0
    /\ loads = 0
    /\ pipePc = "idle"

trainingVars == <<storeId, fallbackId, trainCsvId, payload, requested, pc, cliDf,
                  fetchVars, dataVars, modelVars, err>>

\* table_ML.main: processor.process_data()
ProcessData ==
    /\ pipePc = "process"
    /\ datasets' = IF validate_environment(sources) THEN Datasets(sources) ELSE <<>>
    /\ merged_out' = IF validate_environment(sources) /\ Datasets(sources) # <<>>
                    THEN merge_datasets(Datasets(sources))
                    ELSE None
    /\ ml_table' = process_data(sources)
    /\ pipePc' = "save"
    /\ UNCHANGED <<sources, csvFile, data, chunkAt, table, total_rows, loads,
                   trainingVars, predictVars, apiVars, recreateVars>>

\* table_ML.main: the table is written when there is one
SaveCsv ==
    /\ pipePc = "save"
    /\ IF ~ml_table.none /\ ~Empty(ml_table.frame)
       THEN csvFile' = [exists |-> TRUE, frame |-> to_csv(ml_table.frame)]
       ELSE UNCHANGED csvFile
    /\ pipePc' = "load"
    /\ UNCHANGED <<sources, datasets, ml_table, data, chunkAt, table, merged_out,
                   total_rows, loads, trainingVars, predictVars, apiVars, recreateVars>>

\* load_ml_features.main up to the chunk loop: the script ends when there is
\* no CSV; else the table is dropped and created again and the rows of the
\* CSV are converted
LoadCsv ==
    /\ pipePc = "load"
    /\ IF ~csvFile.exists
       THEN pipePc' = "exit" /\ UNCHANGED <<data, table>>
       ELSE LET rows == ConvertRows(read_csv(csvFile.frame))
            IN  /\ table' = Recreated(table)
                /\ data' = rows
                /\ pipePc' = IF rows = <<>> THEN "loaded" ELSE "insert"
    /\ chunkAt' = 0
    /\ total_rows' = 0
    /\ loads' = loads + 1
    /\ UNCHANGED <<sources, datasets, ml_table, csvFile, merged_out, trainingVars,
                   predictVars, apiVars, recreateVars>>

\* one pass of "for i in range(0, len(data), chunk_size)"
InsertChunk ==
    /\ pipePc = "insert"
    /\ LET last == Min({chunkAt + ChunkSize, Len(data)})
           chunk == SubSeq(data, chunkAt + 1, last)
       IN  /\ table' = table \o InsertedOf(chunk)
           /\ total_rows' = total_rows + CountOf(chunk)
           /\ chunkAt' = chunkAt + ChunkSize
           /\ pipePc' = IF chunkAt + ChunkSize >= Len(data) THEN "loaded" ELSE "insert"
    /\ UNCHANGED <<sources, datasets, ml_table, csvFile, data, merged_out, loads,
                   trainingVars, predictVars, apiVars, recreateVars>>

\* load_ml_features.py is run once more on the same data/ml_features.csv
RunLoaderAgain ==
    /\ pipePc = "loaded"
    /\ loads < MaxLoads
    /\ pipePc' = "load"
    /\ UNCHANGED <<sources, datasets, ml_table, csvFile, data, chunkAt, table,
                   merged_out, total_rows, loads, trainingVars, predictVars,
                   apiVars, recreateVars>>

NextPipeline ==
    \/ ProcessData
    \/ SaveCsv
    \/ LoadCsv
    \/ InsertChunk
    \/ RunLoaderAgain

(***************************************************************************)
(* main.py: the CRUD endpoints of rainfall, temperature, pesticides and    *)
(* crop-yield.  The four resources have the same four handlers; the rows   *)
(* of a resource carry the two columns the handlers can fail on: the name  *)
(* (area, or country for temperature) and the year                         *)
(***************************************************************************)
Resources == {"rainfall", "temperature", "pesticides", "crop-yield"}

\* Field(..., ge=1900, le=2100) of year in the Base schema of every resource
YearMin == 1900

YearMax == 2100

\* the model hands out at most this many ids per table
MaxIds == 2

\* the ids a request can name
Ids == 1 .. MaxIds

\* the bodies of POST: a name and a year
CreateBodies == [area : {AreaA, AreaB}, year : {Num(2020), Num(1800)}]

\* a field of the body of PUT that the request does not set
Unset == Str(<<"-">>)

\* the bodies of PUT: every field is optional and may be null; the Update
\* schemas put no bound on the year
UpdateBodies == [area : {Unset, AreaB}, year : {Unset, Num(2021), Num(1800), Null}]

NoBody == [area |-> Unset, year |-> Unset]

\* the Create schema accepts the body: min_length=1 of the name, the range
\* of the year
CreateValid(body) ==
    /\ body.area.k = "str" /\ body.area.s # <<>>
    /\ body.year.k = "num" /\ body.year.n >= YearMin /\ body.year.n <= YearMax

\* the Response schema, which inherits the Base schema, accepts the row
ResponseValid(row) == CreateValid(row)

\* setattr(db_row, key, value) for the fields of update_data
Updated(row, body) ==
    [area |-> IF body.area = Unset THEN row.area ELSE body.area,
     year |-> IF body.year = Unset THEN row.year ELSE body.year]

\* the table rejects the row at commit: nullable=False of the name and
\* the year, and for rainfall the unique key (area, year)
Rejected(rows, id, row) ==
    \/ IsNull(row.area)
    \/ IsNull(row.year)
    \/ /\ resource = "rainfall"
       /\ \E other \in DOMAIN rows \ {id} :
             rows[other].area = row.area /\ rows[other].year = row.year

\* no request has been made
ApiIdle ==
    /\ resource = "rainfall"
    /\ records = <<>>
    /\ nextId = 1
    /\ exchange = [method |-> "none", id |-> 0, body |-> NoBody, status |-> 0]

Answer(method, id, body, status) ==
    exchange' = [method |-> method, id |-> id, body |-> body, status |-> status]

\* POST /{resource}: 422 from the Create schema, 400 when the commit
\* fails, else 201 with the row under a new id
Create ==
    /\ nextId <= MaxIds
    /\ \E body \in CreateBodies :
          IF ~CreateValid(body)
          THEN Answer("POST", 0, body, 422) /\ UNCHANGED <<records, nextId>>
          ELSE IF Rejected(records, nextId, body)
          THEN /\ Answer("POST", 0, body, 400)
               /\ nextId' = nextId + 1
               /\ UNCHANGED records
          ELSE /\ records' = [id \in DOMAIN records \cup {nextId} |->
                                 IF id = nextId THEN body ELSE records[id]]
               /\ nextId' = nextId + 1
               /\ Answer("POST", nextId, body,
                         IF ResponseValid(body) THEN 201 ELSE 500)
    /\ UNCHANGED <<resource, trainingVars, predictVars, pipelineVars,
                   recreateVars>>

\* GET /{resource}/{id}: 404, or the row through the Response schema
ReadById ==
    /\ \E id \in Ids :
          Answer("GET", id, NoBody,
                 IF id \notin DOMAIN records THEN 404
                 ELSE IF ResponseValid(records[id]) THEN 200 ELSE 500)
    /\ UNCHANGED <<resource, records, nextId, trainingVars, predictVars, pipelineVars,
                   recreateVars>>

\* PUT /{resource}/{id}: 404; 400 when the commit fails; else the row is
\* changed and goes through the Response schema
Update ==
    /\ \E id \in Ids, body \in UpdateBodies :
          IF id \notin DOMAIN records
          THEN Answer("PUT", id, body, 404) /\ UNCHANGED records
          ELSE LET row == Updated(records[id], body)
               IN  IF Rejected(records, id, row)
                   THEN Answer("PUT", id, body, 400) /\ UNCHANGED records
                   ELSE /\ records' = [records EXCEPT ![id] = row]
                        /\ Answer("PUT", id, body,
                                  IF ResponseValid(row) THEN 200 ELSE 500)
    /\ UNCHANGED <<resource, nextId, trainingVars, predictVars, pipelineVars,
                   recreateVars>>

\* DELETE /{resource}/{id}: 404, or the row is deleted and 204
Delete ==
    /\ \E id \in Ids :
          IF id \notin DOMAIN records
          THEN Answer("DELETE", id, NoBody, 404) /\ UNCHANGED records
          ELSE /\ records' = [other \in DOMAIN records \ {id} |-> records[other]]
               /\ Answer("DELETE", id, NoBody, 204)
    /\ UNCHANGED <<resource, nextId, trainingVars, predictVars, pipelineVars,
                   recreateVars>>

NextCrud ==
    \/ Create
    \/ ReadById
    \/ Update
    \/ Delete

\* the errors of train_model that are ValueError
ValueErrors ==
    {  "ValueError: target column missing", "ValueError: missing features",
       "ValueError: scaler", "ValueError: too few samples"  }

\* train_model_endpoint: result = train_model(db, payload); the first
\* statement of train_model is the fetch
TrainEndpointCall ==
    /\ pc = "cli"
    /\ exchange.method = "none"
    /\ pc' = "fetch"
    /\ exchange' = [method |-> "POST /ml/train", id |-> 0, body |-> NoBody,
                    status |-> 0]
    /\ UNCHANGED <<storeId, fallbackId, trainCsvId, requested, predictVars,
                   pipelineVars, payload, cliDf, err, fetchVars, dataVars,
                   modelVars, resource, records, nextId, recreateVars>>

\* step 3 inside that call: the parameter payload is bound to the Session,
\* which has no attribute target_column
SessionAsPayload ==
    /\ pc = "validate"
    /\ Raise("AttributeError")
    /\ UNCHANGED <<envVars, payload, cliDf, fetchVars, dataVars, modelVars>>

\* the endpoint's return and its two except clauses
TrainEndpointAnswer ==
    /\ pc \in {"done", "error"}
    /\ exchange.method = "POST /ml/train"
    /\ exchange.status = 0
    /\ exchange' = [exchange EXCEPT !.status =
                       IF pc = "done" THEN 200
                       ELSE IF err \in ValueErrors THEN 400 ELSE 500]
    /\ UNCHANGED <<storeId, fallbackId, trainCsvId, requested, predictVars,
                   pipelineVars, payload, pc, cliDf, err, fetchVars, dataVars,
                   modelVars, resource, records, nextId, recreateVars>>

NextEndpoint ==
    \/ TrainEndpointCall
    \/ FetchPageOk
    \/ FetchPageFail
    \/ Fallback
    \/ SessionAsPayload
    \/ TrainEndpointAnswer

(***************************************************************************)
(* Specifications                                                          *)
(***************************************************************************)
\* a training run from the command line
Init ==
    /\ InitTraining
    /\ PredictIdle
    /\ PipelineIdle
    /\ ApiIdle
    /\ RecreateIdle

Spec == Init /\ [][Next]_vars

\* the training run when every request of the fetch loop returns or fails
SpecFetchFair == Spec /\ WF_vars(FetchPageFail \/ FetchPageOk)

\* a call of predict with a bundle file and a features mapping
InitPredict ==
    /\ storeId = 1
    /\ trainCsvId = NoTrainCsv
    /\ payload = [feature_columns |-> DefaultFeatures, target_column |-> crop_yield,
                  allow_missing_features |-> FALSE, drop_na |-> FALSE]
    /\ requested = DefaultFeatures
    /\ TrainingIdle
    /\ bundle \in BundleFiles
    /\ features \in FeatureInputs
    /\ model_input = <<>>
    /\ pred = <<>>
    /\ prediction = <<>>
    /\ predPc = "call"
    /\ PipelineIdle
    /\ ApiIdle
    /\ RecreateIdle

SpecPredict == InitPredict /\ [][NextPredict]_vars

\* the bundle files a training run can find: none, the bundle of an earlier
\* run, a file without the model, a file without the column list
EarlierBundle ==
    [exists |-> TRUE, feature_columns |-> <<rainfall>>,
     target_column |-> crop_yield, scaler |-> {1, 2}, model |-> {1}]

ServiceBundles ==
    {  NoBundle,
       EarlierBundle,
       [exists |-> TRUE, feature_columns |-> <<year>>],
       [exists |-> TRUE, model |-> {1}]  }

\* a training run from the command line with a bundle file of whatever
\* kind in place, followed by calls of predict and batch_predict_from_api
InitService ==
    /\ storeId \in StoreIds
    /\ trainCsvId = NoTrainCsv
    /\ payload \in [feature_columns : FeatureRequests,
                    target_column : {crop_yield},
                    allow_missing_features : BOOLEAN,
                    drop_na : BOOLEAN]
    /\ requested = payload.feature_columns
    /\ bundle \in ServiceBundles
    /\ TrainingIdle
    /\ PredictIdle
    /\ PipelineIdle
    /\ ApiIdle
    /\ RecreateIdle

SpecService == InitService /\ [][NextService]_vars
(***************************************************************************)
(* load_ml_features.py: drop_and_recreate_ml_features_table                *)
(***************************************************************************)
\* max_retries of drop_and_recreate_ml_features_table
MaxRetries == 3

\* the statement of an attempt the database answers with a pymysql.Error:
\* the SELECT on information_schema, the DROP, the CREATE, or none
Faults == {"none", "select", "drop", "create"}

\* the except branch: the next attempt, or False after the last one
AttemptFailed ==
    /\ retryNo' = retryNo + 1
    /\ recreated' = IF retryNo + 1 = MaxRetries THEN "False" ELSE "none"

\* one pass of "for attempt in range(max_retries)": try, except, finally.
\* The cursor is made once before the loop and closed in the finally of
\* every pass; execute on a closed cursor raises ProgrammingError("Cursor
\* closed"), a pymysql.Error, before anything is sent to the database
RecreateAttempt ==
    /\ recreated = "none"
    /\ retryNo < MaxRetries
    /\ LET fault == faults[retryNo + 1]
       IN  IF ~cursorOpen
           THEN AttemptFailed /\ UNCHANGED <<rejected, tableExists, table>>
           ELSE IF fault = "select" \/ (fault = "drop" /\ tableExists)
           THEN /\ AttemptFailed
                /\ rejected' = rejected + 1
                /\ UNCHANGED <<tableExists, table>>
           ELSE IF fault = "create"
           THEN /\ AttemptFailed
                /\ rejected' = rejected + 1
                /\ tableExists' = FALSE
                /\ table' = <<>>
           ELSE /\ retryNo' = retryNo + 1
                /\ recreated' = "True"
                /\ tableExists' = TRUE
                /\ table' = Recreated(table)
                /\ UNCHANGED rejected
    /\ cursorOpen' = FALSE
    /\ UNCHANGED <<faults, sources, datasets, ml_table, csvFile, data, chunkAt,
                   merged_out, total_rows, loads, pipePc, trainingVars, predictVars,
                   apiVars>>

NextRecreate == RecreateAttempt

(***************************************************************************)
(* The feature store rebuilt by load_ml_features.py while a training run   *)
(* fetches it page by page                                                 *)
(***************************************************************************)
\* the rows of the table before the rebuild: more than one page
OldContent == Padding(<<"A">>, BatchSize + 4)

\* data/ml_features.csv of the rebuild: as many rows, of another area
NewCsv == [exists |-> TRUE,
           frame |-> to_csv(Frame(StoreCols, Padding(<<"B">>, BatchSize + 4)))]

\* one request of the fetch loop answered by read_ml_features from the
\* table as it is at that moment: every request is a query of its own,
\* and the loader commits after the DROP / CREATE and after every chunk
FetchLivePage ==
    /\ pc = "fetch"
    /\ total < TargetRecords
    /\ LET limit == PageLimit(total)
           batch == ServePage(table, skip, limit)
           got == Len(batch)
       IN  /\ ~ServerError(table, skip, limit)
           /\ apiContacted' = TRUE
           /\ IF batch = <<>>
              THEN FetchReturn(all_data)
              ELSE IF got < limit \/ total + got >= TargetRecords
              THEN FetchReturn(all_data \o batch)
              ELSE /\ all_data' = all_data \o batch
                   /\ total' = total + got
                   /\ skip' = skip + got
                   /\ attempt' = 1
                   /\ UNCHANGED <<pc, df, source, fetchOutcome>>
    /\ UNCHANGED <<envVars, payload, cliDf, X, y, index, modelVars, err>>

NextRebuild ==
    \/ CliStart
    \/ FetchLivePage
    \/ FetchPageFail
    \/ LoadCsv
    \/ InsertChunk


\* requests to the CRUD endpoints of one resource, from an empty table
InitCrud ==
    /\ storeId = 1
    /\ trainCsvId = NoTrainCsv
    /\ payload = [feature_columns |-> DefaultFeatures, target_column |-> crop_yield,
                  allow_missing_features |-> FALSE, drop_na |-> FALSE]
    /\ requested = DefaultFeatures
    /\ TrainingIdle
    /\ bundle = NoBundle
    /\ PredictIdle
    /\ PipelineIdle
    /\ resource \in Resources
    /\ records = <<>>
    /\ nextId = 1
    /\ exchange = [method |-> "none", id |-> 0, body |-> NoBody, status |-> 0]
    /\ RecreateIdle

SpecCrud == InitCrud /\ [][NextCrud]_vars

\* a call of drop_and_recreate_ml_features_table: the table is there or
\* not, and the database rejects a statement in any of the attempts
InitRecreate ==
    /\ storeId = 1
    /\ trainCsvId = NoTrainCsv
    /\ payload = [feature_columns |-> DefaultFeatures, target_column |-> crop_yield,
                  allow_missing_features |-> FALSE, drop_na |-> FALSE]
    /\ requested = DefaultFeatures
    /\ TrainingIdle
    /\ bundle = NoBundle
    /\ PredictIdle
    /\ ApiIdle
    /\ sources = [rainfall |-> Absent, temperature |-> Absent,
                  pesticides |-> Absent, yield |-> Absent]
    /\ datasets = <<>>
    /\ ml_table = None
    /\ csvFile = NoCsv
    /\ data = <<>>
    /\ chunkAt = 0
    /\ merged_out = None
    /\ total_rows = 0
    /\ loads = 0
    /\ pipePc = "idle"
    /\ tableExists \in BOOLEAN
    /\ table \in IF tableExists THEN {<<>>, <<OldRow>>} ELSE {<<>>}
    /\ faults \in [1 .. MaxRetries -> Faults]
    /\ cursorOpen = TRUE
    /\ retryNo = 0
    /\ rejected = 0
    /\ recreated = "none"

SpecRecreate == InitRecreate /\ [][NextRecreate]_vars

\* a training run starts while load_ml_features.py is about to rebuild the
\* table from a new data/ml_features.csv
InitRebuild ==
    /\ storeId = 1
    /\ trainCsvId = NoTrainCsv
    /\ payload = [feature_columns |-> DefaultFeatures, target_column |-> crop_yield,
                  allow_missing_features |-> FALSE, drop_na |-> FALSE]
    /\ requested = DefaultFeatures
    /\ TrainingIdle
    /\ bundle = NoBundle
    /\ PredictIdle
    /\ ApiIdle
    /\ RecreateIdle
    /\ sources = [rainfall |-> Absent, temperature |-> Absent,
                  pesticides |-> Absent, yield |-> Absent]
    /\ datasets = <<>>
    /\ ml_table = None
    /\ csvFile = NewCsv
    /\ data = <<>>
    /\ chunkAt = 0
    /\ table = OldContent
    /\ merged_out = None
    /\ total_rows = 0
    /\ loads = 0
    /\ pipePc = "load"

SpecRebuild == InitRebuild /\ [][NextRebuild]_vars

\* a POST /ml/train request: any store, any request body
InitEndpoint ==
    /\ storeId \in StoreIds
    /\ trainCsvId = NoTrainCsv
    /\ payload \in [feature_columns : FeatureRequests,
                    target_column : {crop_yield, crop_yeild},
                    allow_missing_features : BOOLEAN,
                    drop_na : BOOLEAN]
    /\ requested = payload.feature_columns
    /\ bundle = NoBundle
    /\ TrainingIdle
    /\ PredictIdle
    /\ PipelineIdle
    /\ ApiIdle
    /\ RecreateIdle

SpecEndpoint == InitEndpoint /\ [][NextEndpoint]_vars

\* a run of table_ML.py followed by a run of load_ml_features.py
InitPipeline ==
    /\ storeId = 1
    /\ trainCsvId = NoTrainCsv
    /\ payload = [feature_columns |-> DefaultFeatures, target_column |-> crop_yield,
                  allow_missing_features |-> FALSE, drop_na |-> FALSE]
    /\ requested = DefaultFeatures
    /\ TrainingIdle
    /\ bundle = NoBundle
    /\ PredictIdle
    /\ sources \in [rainfall : RainfallFiles, temperature : TemperatureFiles,
                    pesticides : PesticidesFiles, yield : YieldFiles]
    /\ datasets = <<>>
    /\ ml_table = None
    /\ csvFile = NoCsv
    /\ data = <<>>
    /\ chunkAt = 0
    /\ table = <<OldRow>>
    /\ merged_out = None
    /\ total_rows = 0
    /\ loads = 0
    /\ pipePc = "process"
    /\ ApiIdle
    /\ RecreateIdle

SpecPipeline == InitPipeline /\ [][NextPipeline]_vars

(***************************************************************************)
(* Properties of the training run                                          *)
(***************************************************************************)
\* column validation has passed
Validated == pc \in {"features", "scale", "target", "guard", "split", "fit",
                     "metrics", "save", "done"}
             \/ (pc = "error" /\ err \in {"TypeError", "ValueError: scaler",
                                          "ValueError: too few samples",
                                          "AttributeError"})

\* steps 4 to 6 have run: X and y are the cleaned data
Cleaned == pc \in {"guard", "split", "fit", "metrics", "save", "done"}
           \/ (pc = "error" /\ err \in {"ValueError: too few samples",
                                        "AttributeError"})

\* the guard of step 7 has been passed
PastGuard == pc \in {"split", "fit", "metrics", "save", "done"}
             \/ (pc = "error" /\ err = "AttributeError")

\* the requested features that are no column of df
AbsentFeatures == {f \in Range(requested) : ~HasCol(df, f)}

\* C1: for every requested feature absent from the data, a close column
\* name is substituted for it if there is one; otherwise the feature is
\* dropped when allow_missing_features is set and training fails when it is
\* not: no run passes validation with allow_missing_features false and an
\* absent feature that has no close match.
C1_AbsentFeatureHandled ==
    Validated =>
        \A f \in AbsentFeatures :
            IF CloseMatch(f, df) # <<>>
            THEN CloseMatch(f, df)[1] \in Range(payload.feature_columns)
            ELSE /\ payload.allow_missing_features
                 /\ f \notin Range(payload.feature_columns)

\* all values of column c of df are text that is no number
TextColumn(frame, c) ==
    LET cells == Column(frame, c)
    IN  /\ \E i \in DOMAIN cells : ~IsNull(cells[i])
        /\ \A i \in DOMAIN cells : IsNull(ToNumeric(cells[i]))

\* C2: every feature column whose values cannot be parsed as numbers is
\* one-hot encoded: the bundle's feature column list holds one indicator
\* column per distinct value of that column.
C2_TextColumnsOneHot ==
    bundle.exists =>
        \A c \in Range(payload.feature_columns) :
            TextColumn(df, c) =>
                \A v \in {w \in Range(Column(df, c)) : ~IsNull(w)} :
                    DummyName(c, v) \in Range(bundle.feature_columns)

\* C3: with --train-csv PATH the model is trained on the rows of that file
\* and the feature-store API is not contacted for training data.
C3_TrainCsvBypassesApi ==
    trainCsvId # NoTrainCsv =>
        /\ ~apiContacted
        /\ source # "none" => df = cliDf

\* what holds in every state of the acquisition
C4_Acquisition ==
    /\ attempt \in 1 .. Retries
    /\ fetchOutcome = "ok" => source = "API"
    /\ source = "CSV" =>
          /\ fetchOutcome \in {"raised", "empty"}
          /\ fallbackId # NoFile
          /\ df = CsvTable[fallbackId]
    /\ (fetchOutcome \in {"raised", "empty"} /\ pc # "fallback") =>
          \/ source = "CSV"
          \/ pc = "error" /\ err = "FileNotFoundError" /\ fallbackId = NoFile
    /\ (pc = "error" /\ err = "FileNotFoundError" /\ trainCsvId = NoTrainCsv) =>
          fetchOutcome \in {"raised", "empty"} /\ fallbackId = NoFile

\* what every step of the fetch loop does to the attempt count
C4_FetchStep ==
    (pc = "fetch" /\ pc' = "fetch") =>
        IF skip' # skip
        THEN attempt' = 1
        ELSE attempt < Retries /\ attempt' = attempt + 1

\* C4: each page request is attempted at most 3 times and the count
\* restarts with every page; when all attempts of a page fail, or no row
\* comes back, train_model reads the fallback CSV, and an acquisition error
\* reaches the caller only when the fallback file cannot be read either.
C4_RetryThenFallback == [](C4_Acquisition) /\ [][C4_FetchStep]_vars

\* a second page failed twice and the run went on to train on the CSV
C4_Witness ==
    /\ pc = "done"
    /\ source = "CSV"
    /\ fetchOutcome = "raised"
    /\ Len(StoreTable[storeId]) > BatchSize

\* C5: whenever fewer than 100 samples survive cleaning the run fails with
\* the too-few-samples error and fit is never reached; every fatal
\* validation error (missing target column, unmappable missing feature,
\* too few samples) is raised before fit.
C5_GuardBeforeFit ==
    /\ fitReached => Len(y) >= MinSamples /\ err = "none"
    /\ pc = "error" => ~fitReached
    /\ (Cleaned /\ pc # "guard" /\ Len(y) < MinSamples) =>
          pc = "error" /\ err = "ValueError: too few samples"
    /\ PastGuard => Len(y) >= MinSamples

\* the guard stopped a run with 99 samples
C5_Witness ==
    /\ pc = "error"
    /\ err = "ValueError: too few samples"
    /\ Len(y) = MinSamples - 1

\* C7: the scaler of the bundle is fitted only on rows of the training
\* part: the split is done before the scaler is fitted and no row of the
\* test part is among the rows the scaler was fitted on.
C7_ScalerTrainOnly ==
    scaler.fitted => split.done /\ scaler.rows \cap split.test = {}

NoNullIn(rows) == \A i \in DOMAIN rows : ~RowHasNull(rows[i])

\* the table has all columns of the store and at least one rainfall value
\* missing and one present
PartialRainfall(frame) ==
    /\ frame.cols = StoreCols
    /\ \E i \in DOMAIN frame.rows : IsNull(frame.rows[i][ColIdx(frame, rainfall)])
    /\ \E i \in DOMAIN frame.rows : ~IsNull(frame.rows[i][ColIdx(frame, rainfall)])

\* C8: with drop_na false no row is dropped: n_samples is the number of
\* rows of the acquired frame, every missing feature value and target value
\* is imputed, and the request for the six default features over a table of
\* at least 100 rows with partial rainfall coverage does not raise.
C8_NoRowDropped ==
    ~payload.drop_na =>
        /\ pc \in {"scale", "target"} => NoNullIn(X.rows)
        /\ (Cleaned /\ pc # "error") =>
              /\ NoNullIn(X.rows)
              /\ \A i \in DOMAIN y : ~IsNull(y[i])
              /\ Len(y) = Len(df.rows)
              /\ Len(X.rows) = Len(df.rows)
        /\ pc = "done" => n_samples = Len(df.rows)
        /\ (/\ source # "none"
            /\ requested = DefaultFeatures
            /\ PartialRainfall(df)
            /\ Len(df.rows) >= MinSamples) => pc # "error"

\* the default request was trained on a table with partial rainfall coverage
C8_Witness ==
    /\ pc = "done"
    /\ ~payload.drop_na
    /\ requested = DefaultFeatures
    /\ PartialRainfall(df)
    /\ n_samples = Len(df.rows)

\* C9: the run with drop_na true produces a sample count that is at most
\* the sample count the run with drop_na false produces on the same input
\* (the number of rows of the frame): once at least 100 samples are left
\* the run goes on to its response, with n_samples at most that number.
C9_DropNaFewerOrEqual ==
    (payload.drop_na /\ Cleaned /\ Len(y) >= MinSamples) =>
        /\ pc # "error"
        /\ Len(y) <= Len(df.rows)
        /\ pc = "done" => n_samples <= Len(df.rows)

(***************************************************************************)
(* Properties of predict                                                   *)
(***************************************************************************)
\* the value the model is to get for a feature column: the number the
\* mapping has under that name, 0 when it has none
ExpectedValue(name) ==
    LET hits == {i \in DOMAIN features : features[i][1] = name}
    IN  IF hits = {} THEN Num(0)
        ELSE LET v == ToNumeric(features[Min(hits)][2])
             IN  IF IsNull(v) THEN Num(0) ELSE v

\* C6: for any features mapping, predict hands the model exactly one row
\* with one value per feature column of the bundle, in the bundle's order:
\* the mapping's numeric value for that name, or 0 when the name is absent
\* or its value is null or no number; nothing is scaled or expanded, and
\* the prediction is the one estimate for that row, not a list.  A call
\* with a loadable bundle always ends with a prediction.
C6_PredictRow ==
    /\ (predPc \in {"done", "error"} /\ Loadable(bundle)) => predPc = "done"
    /\ predPc = "done" =>
          /\ Len(model_input) = 1
          /\ Len(model_input[1]) = Len(bundle.feature_columns)
          /\ \A j \in DOMAIN bundle.feature_columns :
                model_input[1][j] = ExpectedValue(bundle.feature_columns[j])
          /\ Len(pred) = 1
          /\ prediction = Estimate(bundle.model, model_input[1])

\* a prediction from a mapping that lacks most columns of the bundle, names
\* a column the bundle has not, and holds a number as text and a name
C6_Witness ==
    /\ predPc = "done"
    /\ bundle.feature_columns = Append(DefaultFeatures, rain_temp_interact)
    /\ features = << <<year, Str(<<"1", "6">>)>>, <<humidity, Num(4)>>,
                     <<area, Str(<<"B">>)>> >>
    /\ model_input = << <<Num(0), Num(16), Num(0), Num(0), Num(0), Num(0), Num(0)>> >>

(***************************************************************************)
(* Properties of the merge / finalize / load run                           *)
(***************************************************************************)
\* C10: after a run of the pipeline that produces a table, the feature
\* table has a crop_yield column and every row of it, in the file written
\* and in the ml_features table loaded from it, has a crop_yield value.
C10_CropYieldNeverNull ==
    /\ csvFile.exists =>
          LET written == read_csv(csvFile.frame)
          IN  /\ HasCol(written, crop_yield)
              /\ \A i \in DOMAIN written.rows :
                    ~IsNull(written.rows[i][ColIdx(written, crop_yield)])
    /\ pipePc \in {"insert", "loaded"} =>
          \A i \in DOMAIN table : ~IsNull(table[i][IndexOf(StoreCols, crop_yield)])

\* the sources other than yield that the readers could not read
Unread == {name \in {"rainfall", "temperature", "pesticides"} : ~sources[name].readable}

\* the yield reader gave a frame with rows
YieldRead ==
    LET read == load_and_process_yield(sources.yield)
    IN  ~read.none /\ ~Empty(read.frame)

\* C11: when exactly one of rainfall.csv, temp.csv and pesticides.csv is
\* missing or malformed while yield.csv is readable, process_data does not
\* abort: it returns a feature table built from the yield rows.
C11_OneSourceLostNoAbort ==
    (pipePc # "process" /\ Cardinality(Unread) = 1 /\ YieldRead) =>
        /\ ~ml_table.none
        /\ HasCol(ml_table.frame, crop_yield)
        /\ ml_table.frame.rows # <<>>

\* C12: when yield.csv cannot be read (missing or malformed) or its reader
\* leaves no row, merging fails and the run ends without a feature table,
\* whatever the other sources hold.
C12_NoYieldNoTable ==
    (pipePc # "process" /\ ~YieldRead) =>
        /\ merged_out.none
        /\ ml_table.none
        /\ ~csvFile.exists

\* the frames process_data handed to merge_datasets under the names given
Among(names) ==
    Filter(datasets, [i \in 1 .. Len(datasets) |-> datasets[i][1] \in names])

\* merge_datasets was called with a yield frame that has rows
MergedFromYield ==
    /\ pipePc # "process"
    /\ Among({yield}) # <<>>
    /\ ~Empty(Among({yield})[1][2])

\* C13: a merge that starts from a non-empty yield frame gives, before
\* deduplication, no more rows than the yield frame but for the growth the
\* temperature frame causes: no more rows than the merge of the yield and
\* the temperature frame alone, whatever the rainfall and pesticides
\* frames hold.
C13_GrowthOnlyFromTemperature ==
    MergedFromYield =>
        Len(merged_out.frame.rows) <=
            Len(merge_datasets(Among({temperature, yield})).frame.rows)

\* the yield frame merge_datasets started from
YieldFrame == Among({yield})[1][2]

\* the frames merge_datasets joined onto the yield frame
Joined ==
    LET others == Among({rainfall, temperature, pesticides})
    IN  {others[i][2] : i \in {k \in DOMAIN others : ~Empty(others[k][2])}}

\* the source frame has a row with the (area, year) of the yield row
Covers(frame, row) ==
    \E k \in DOMAIN frame.rows :
        /\ frame.rows[k][ColIdx(frame, area)] = row[ColIdx(YieldFrame, area)]
        /\ frame.rows[k][ColIdx(frame, year)] = row[ColIdx(YieldFrame, year)]

\* C14: merge_datasets keeps the whole yield population: the merged frame
\* begins with the columns of the yield frame, every yield row appears in
\* it and no other row does, and where a joined source has no row for the
\* (area, year) of a yield row its column is null in that row.
C14_YieldPopulationKept ==
    MergedFromYield =>
        LET merged == merged_out.frame
            width == Len(YieldFrame.cols)
        IN  /\ ~merged_out.none
            /\ SubSeq(merged.cols, 1, width) = YieldFrame.cols
            /\ {SubSeq(merged.rows[i], 1, width) : i \in DOMAIN merged.rows}
                   = Range(YieldFrame.rows)
            /\ \A frame \in Joined :
                  /\ HasCol(merged, frame.cols[3])
                  /\ \A i \in DOMAIN merged.rows :
                        ~Covers(frame, SubSeq(merged.rows[i], 1, width)) =>
                            IsNull(merged.rows[i][ColIdx(merged, frame.cols[3])])

\* a merge in which a yield row has no rainfall row and another has one
C14_Witness ==
    /\ MergedFromYield
    /\ Len(YieldFrame.rows) >= 2
    /\ HasCol(merged_out.frame, rainfall)
    /\ \E i, j \in DOMAIN merged_out.frame.rows :
          /\ IsNull(merged_out.frame.rows[i][ColIdx(merged_out.frame, rainfall)])
          /\ ~IsNull(merged_out.frame.rows[j][ColIdx(merged_out.frame, rainfall)])

\* every order of the sequence s
Orders(s) ==
    {Tuple([i \in 1 .. Len(s) |-> s[p[i]]]) :
        p \in {q \in [1 .. Len(s) -> 1 .. Len(s)] : \A i, j \in 1 .. Len(s) : q[i] = q[j] => i = j}}

\* merge_datasets, then create_final_ml_table when the merge gave rows
Finalized(items) ==
    LET merged == merge_datasets(items)
    IN  IF merged.none \/ Empty(merged.frame) THEN merged.frame
        ELSE create_final_ml_table(merged.frame)

\* the same columns and the same rows, in any row order
SameTable(f, g) ==
    /\ f.cols = g.cols
    /\ Len(f.rows) = Len(g.rows)
    /\ Range(f.rows) = Range(g.rows)

\* C15: with the yield frame and the other frames fixed, every order of
\* the non-yield sources in the datasets mapping gives the same finalized
\* table, up to the order of its rows.
C15_OrderIndependent ==
    (pipePc # "process" /\ Among({yield}) # <<>>) =>
        \A others \in Orders(Among({rainfall, temperature, pesticides})) :
            SameTable(Finalized(others \o Among({yield})), Finalized(datasets))

\* the rows of the chunk of the converted CSV that begins after row at
ChunkAfter(at) == SubSeq(data, at + 1, Min({at + ChunkSize, Len(data)}))

\* the chunk holds a row the table rejects
Failing(chunk) == \E k \in DOMAIN chunk : ~Insertable(chunk[k])

C17_LoadReplacesTable ==
    pipePc = "loaded" =>
        LET rows == ConvertRows(read_csv(csvFile.frame))
        IN  /\ Range(table) \subseteq Range(rows)
            /\ Len(table) = Cardinality({i \in DOMAIN rows : Insertable(rows[i])})

\* the same CSV has been loaded a second time, over the rows of the first
\* load, into a database that once held an older row
C17_Witness ==
    /\ pipePc = "loaded"
    /\ loads = 2
    /\ table # <<>>
    /\ OldRow \notin Range(table)

\* the cell holds a number above zero, as a number or as its digits
ParsesAboveZero(v) ==
    \/ v.k = "num" /\ v.n > 0
    \/ /\ v.k = "str"
       /\ v.s # <<>>
       /\ \A i \in DOMAIN v.s : IsDigit(v.s[i])
       /\ ParseDigits(v.s, 0) > 0

\* the row of rainfall.csv has a rainfall above zero
RainfallAboveZero(row) == ParsesAboveZero(row.rainfall)

\* C20: the rainfall reader gives exactly the rows of rainfall.csv whose
\* rainfall parses as a number above zero, in the order of the file, with
\* area, year and the rainfall as a number; rows with a rainfall of zero or
\* less, with none, or with a text that is no number are left out.
C20_RainfallAboveZeroOnly ==
    (pipePc # "process" /\ validate_environment(sources) /\ sources.rainfall.readable) =>
        LET kept == SelectSeq(sources.rainfall.rows, RainfallAboveZero)
            read == Among({rainfall})
        IN  /\ Len(read) = 1
            /\ read[1][2].cols = <<area, year, rainfall>>
            /\ Len(read[1][2].rows) = Len(kept)
            /\ \A i \in DOMAIN kept :
                  /\ read[1][2].rows[i][1] = kept[i].area
                  /\ read[1][2].rows[i][2] = kept[i].year
                  /\ read[1][2].rows[i][3].k = "num"
                  /\ read[1][2].rows[i][3] = ToNumeric(kept[i].rainfall)

\* a rainfall.csv with a rainfall below zero for 2020 and one of 800 for
\* 2021 was read: the row of 2021 is in the frame, that of 2020 is not
C20_Witness ==
    /\ pipePc # "process"
    /\ Among({rainfall}) # <<>>
    /\ \E i \in DOMAIN sources.rainfall.rows :
          /\ sources.rainfall.rows[i].year = Num(2020)
          /\ sources.rainfall.rows[i].rainfall.k = "num"
          /\ sources.rainfall.rows[i].rainfall.n < 0
    /\ <<AreaA, Num(2021), Num(800)>> \in Range(Among({rainfall})[1][2].rows)
    /\ \A i \in DOMAIN Among({rainfall})[1][2].rows :
          Among({rainfall})[1][2].rows[i][2] # Num(2020)

\* the row of pesticides.csv is a total of pesticides with a value of 0
\* or more
TotalNotBelowZero(row) ==
    /\ row.Item = "Pesticides (total)"
    /\ row.pesticide_usage.k = "num"
    /\ row.pesticide_usage.n >= 0

\* C21: the pesticides reader gives exactly the rows of pesticides.csv
\* whose Item is "Pesticides (total)" and whose value is 0 or more, in the
\* order of the file, as area, year and pesticide_usage; a row of any other
\* Item, with a value below zero or with no value is left out.
C21_TotalPesticidesOnly ==
    (pipePc # "process" /\ validate_environment(sources) /\ sources.pesticides.readable) =>
        LET kept == SelectSeq(sources.pesticides.rows, TotalNotBelowZero)
            read == Among({pesticides})
        IN  /\ Len(read) = 1
            /\ read[1][2].cols = <<area, year, pesticide_usage>>
            /\ read[1][2].rows =
                   [i \in 1 .. Len(kept) |->
                       <<kept[i].area, kept[i].year, kept[i].pesticide_usage>>]

\* a pesticides.csv with a row of Fertilizers, a total below zero and a
\* total of 0 was read: the frame holds the total of 0 and no row of 2019,
\* the year of the Fertilizers row
C21_Witness ==
    /\ pipePc # "process"
    /\ Among({pesticides}) # <<>>
    /\ \E i \in DOMAIN sources.pesticides.rows :
          /\ sources.pesticides.rows[i].Item = "Fertilizers"
          /\ sources.pesticides.rows[i].year = Num(2019)
    /\ \E i \in DOMAIN sources.pesticides.rows :
          sources.pesticides.rows[i].pesticide_usage.n < 0
    /\ <<AreaB, Num(2020), Num(0)>> \in Range(Among({pesticides})[1][2].rows)
    /\ \A i \in DOMAIN Among({pesticides})[1][2].rows :
          Among({pesticides})[1][2].rows[i][2] # Num(2019)

(***************************************************************************)
(* Properties of the bundle file                                           *)
(***************************************************************************)
\* the bundle file is there and holds the model and the column list
Complete(b) ==
    /\ b.exists
    /\ "model" \in DOMAIN b
    /\ "feature_columns" \in DOMAIN b

\* C18: load_model fails when the bundle file does not exist or the bundle
\* lacks the model or the feature column list, and returns the bundle
\* otherwise: a call of predict or batch_predict_from_api ends in an error
\* with such a file, and a call of predict ends with a prediction of the
\* bundle's model with any other.  The bundle a training run that went
\* through has written always passes the check.
C18_LoadModelCheck ==
    /\ (predPc \in {"done", "batch_done"} => Complete(bundle))
    /\ (predPc = "error" => ~Complete(bundle))
    /\ (predPc = "done" => prediction.model = bundle.model)
    /\ (pc = "done" => Complete(bundle))

\* after a training run that failed, predict has ended in load_model's
\* error on a file that is there but holds no model
C18_Witness ==
    /\ pc = "error"
    /\ predPc = "error"
    /\ bundle.exists
    /\ "model" \notin DOMAIN bundle

\* C19: the bundle file changes only in the last step of a train_model run
\* that has passed validation, fit and metrics; no step of a run that fails
\* and no call of predict or batch_predict_from_api changes it.
C19_BundleWrittenOnlyBySave ==
    [][bundle' # bundle =>
          /\ pc = "save"
          /\ pc' = "done"
          /\ fitReached
          /\ split.done
          /\ err = "none"
          /\ predPc = "idle"]_vars

\* a training run has failed and a call of predict and of
\* batch_predict_from_api has ended with the bundle of the earlier run in
\* place
C19_Witness ==
    /\ pc = "error"
    /\ predPc \in {"done", "batch_done"}
    /\ bundle = EarlierBundle

(***************************************************************************)
(* Properties of the API                                                   *)
(***************************************************************************)
\* C22: for each CRUD resource, over any sequence of requests, a record
\* that a POST created (201, under an id no record had before) is there
\* until a DELETE of its id answers 204: while it is there GET of its id
\* answers 200, PUT answers 200 unless the table rejects the changed row,
\* and DELETE answers 204; GET, PUT and DELETE of an id with no record,
\* deleted ids among them, answer 404, and a deleted id is never given to
\* a new record.
C22_CrudLifecycle ==
    [][(exchange' # exchange \/ records' # records) =>
          LET q == exchange'
              there == q.id \in DOMAIN records
          IN  /\ DOMAIN records' \ DOMAIN records \subseteq
                     {id \in Ids : id >= nextId /\ q.method = "POST" /\ q.status = 201
                                    /\ q.id = id}
              /\ DOMAIN records \ DOMAIN records' \subseteq
                     {id \in Ids : q.method = "DELETE" /\ q.status = 204 /\ q.id = id}
              /\ (q.method = "GET" /\ there) => q.status = 200
              /\ (q.method = "PUT" /\ there) =>
                     \/ q.status = 200
                     \/ /\ q.status = 400
                        /\ Rejected(records, q.id, Updated(records[q.id], q.body))
              /\ (q.method = "DELETE" /\ there) => q.status = 204
              /\ (q.method \in {"GET", "PUT", "DELETE"} /\ ~there) => q.status = 404]_vars
\* C23: POST /ml/train hands the request payload to train_model: a request
\* whose target column is not a column of the data is answered 400, and
\* the answer is 500 only for a failure that is not in reading the request
\* (here: neither the API nor a fallback file gave data).
C23_TrainEndpointDelegates ==
    (exchange.method = "POST /ml/train" /\ exchange.status # 0) =>
        /\ (df # NoFrame /\ ~HasCol(df, payload.target_column))
              => exchange.status = 400
        /\ exchange.status = 500 => err = "FileNotFoundError"

\* the request the fetch loop is about to send
C24_Request ==
    pc = "fetch" =>
        /\ total < TargetRecords
        /\ skip = total
        /\ skip = Len(all_data)
        /\ PageLimit(total) >= 1
        /\ PageLimit(total) <= BatchSize
        /\ PageLimit(total) <= TargetRecords - total

\* an answered request leaves the loop or brings rows; a failed one leaves
\* the loop or is followed by the next attempt at the same page
C24_Progress ==
    pc = "fetch" =>
        \/ pc' # "fetch"
        \/ total' > total /\ total' <= TargetRecords
        \/ total' = total /\ attempt' = attempt + 1 /\ attempt' <= Retries

\* C24: fetch_ml_features_data terminates when every request returns or
\* fails: a request ends the loop (empty page, short page, the cap, the
\* error of the last attempt) or raises total or is retried at most
\* Retries times; skip is the number of rows received so far and limit is
\* at most what is missing to target_records.
C24_FetchTerminates ==
    /\ [](C24_Request)
    /\ [][C24_Progress]_vars
    /\ (pc = "fetch" ~> pc # "fetch")

\* the third page, whose limit is below the batch size, on its last attempt
C24_Witness ==
    /\ pc = "fetch"
    /\ total = 2 * BatchSize
    /\ PageLimit(total) < BatchSize
    /\ attempt = Retries

\* the cells of feature c before the imputation: pd.to_numeric of df[c]
C25_Raw(c) ==
    LET cells == Column(df, c)
    IN  Tuple([i \in 1 .. Len(cells) |-> ToNumeric(cells[i])])

\* the rows of df with the area of row i
C25_SameArea(i) ==
    LET keys == Column(df, area)
    IN  IF IsNull(keys[i]) THEN {}
        ELSE {j \in 1 .. Len(keys) : keys[j] = keys[i]}

\* what the claim puts in place of the missing cell of row i of feature c
C25_Fill(c, i) ==
    LET raw == C25_Raw(c)
        inArea == MedianAt(raw, C25_SameArea(i))
        overall == Median(GroupMedianFill(raw, Column(df, area)))
    IN  IF ~IsNull(inArea) THEN inArea
        ELSE IF ~IsNull(overall) THEN overall
        ELSE Num(0)

\* row i of feature c after the imputation is as the claim says
C25_CellImputed(c, i) ==
    LET raw == C25_Raw(c)
        now == Column(X, c)[i]
    IN  IF IsNull(raw[i]) THEN now = C25_Fill(c, i) ELSE now = raw[i]

\* C25: with drop_na false a missing numeric feature value becomes the
\* median of the rows of its area when the area has a value, otherwise the
\* median of the column, otherwise 0, and a value that is present is left
\* as it is.
C25_ImputationOrder ==
    (pc = "scale" /\ ~payload.drop_na /\ HasCol(df, area)) =>
        \A c \in Range(payload.feature_columns) :
            \A i \in 1 .. Len(df.rows) : C25_CellImputed(c, i)

\* C26: the table create_final_ml_table returns has only columns of the
\* canonical set, those the merged frame has, in the order area, year,
\* crop_type, crop_yield, rainfall, temperature, pesticide_usage, and no
\* two of its rows are equal on all its columns.
C26_CanonicalColumnsNoDuplicates ==
    (~merged_out.none /\ ~ml_table.none) =>
        LET cols == ml_table.frame.cols
        IN  /\ Range(cols) = Range(priority_columns) \cap Range(merged_out.frame.cols)
            /\ \A j, k \in DOMAIN cols :
                  j < k => IndexOf(priority_columns, cols[j]) < IndexOf(priority_columns, cols[k])
            /\ NoDuplicates(ml_table.frame.rows)

\* the merged frame had a column outside the canonical set and rows that
\* are equal, and a table came back
C26_Witness ==
    /\ ~merged_out.none
    /\ ~ml_table.none
    /\ Range(merged_out.frame.cols) \ Range(priority_columns) # {}
    /\ Len(ml_table.frame.rows) < Len(merged_out.frame.rows)
    /\ Len(ml_table.frame.rows) > 1

\* the rows in hand, in every state of a run
C27_Rows ==
    /\ pc # "fetch" => all_data = <<>>
    /\ Range(all_data) \subseteq Range(StoreTable[storeId])
    /\ source = "API" =>
          /\ fetchOutcome = "ok"
          /\ fallbackId = NotRead
          /\ Range(df.rows) \subseteq Range(StoreTable[storeId])
    /\ source = "CSV" =>
          /\ fetchOutcome \in {"raised", "empty"}
          /\ Range(df.rows) = Range(CsvTable[fallbackId].rows)
          /\ Range(df.rows) \cap Range(StoreTable[storeId]) = {}
    /\ source = "none" => df = NoFrame

\* the frame is set once, and the fetch that raises hands no row on
C27_Step ==
    /\ source # "none" => (df' = df /\ source' = source)
    /\ (fetchOutcome # "raised" /\ fetchOutcome' = "raised") =>
          (all_data' = <<>> /\ df' = NoFrame)

\* C27: the frame train_model trains on comes from one source: all its
\* rows were returned by the feature-store API or all were read from the
\* fallback CSV; when a page fails after its last retry the rows of the
\* earlier pages are discarded and never mixed with rows of the CSV.
C27_SingleSource == [](C27_Rows) /\ [][C27_Step]_vars

\* the fallback CSV was read after a fetch over a table of several pages
\* raised
C27_Witness ==
    /\ pc = "validate"
    /\ source = "CSV"
    /\ fetchOutcome = "raised"
    /\ Len(StoreTable[storeId]) > 2 * BatchSize
    /\ df.rows # <<>>

\* C28: for a request whose feature names are distinct and exclude the
\* target, the feature list that leaves column validation names each data
\* column at most once and never the target column: a substitute for a
\* missing name is neither the target nor a column already in the list.
C28_SubstituteIsFresh ==
    (/\ Validated
     /\ NoDuplicates(requested)
     /\ payload.target_column \notin Range(requested)) =>
        /\ NoDuplicates(payload.feature_columns)
        /\ payload.target_column \notin Range(payload.feature_columns)

\* C29: drop_and_recreate_ml_features_table makes up to 3 attempts; it
\* returns True as soon as an attempt has dropped and created the table,
\* also an attempt after one that the database rejected, so that every
\* attempt made without a True is one the database rejected; it returns
\* False only when the database rejected a statement in all 3 attempts.
C29_RetryUntilRecreated ==
    /\ retryNo <= MaxRetries
    /\ recreated = "True" => (tableExists /\ table = <<>>)
    /\ recreated # "True" => rejected = retryNo
    /\ recreated = "False" => rejected = MaxRetries

\* C30: when the table is dropped, created again and loaded chunk by chunk
\* while fetch_ml_features_data pages over it, the frame the fetch returns
\* has rows of one store generation only, all old or all new, and no row
\* twice.
C30_OneGeneration ==
    source = "API" =>
        /\ \/ Range(df.rows) \subseteq Range(OldContent)
           \/ Range(df.rows) \subseteq Range(data)
        /\ NoDuplicates(df.rows)

====
